---- MODULE Spec2Model ----
(***************************************************************************)
(* A model of the chess rule engine (engine/src): coordinates, the         *)
(* directional scanner, the move resolver and the match aggregate with its *)
(* move-application protocol.                                              *)
(*                                                                         *)
(* A coordinate is <<file, rank>> with file in 0..7 (index into FILES) and *)
(* rank in 1..8.  A Vec is a sequence; the piece collection keeps the      *)
(* order of generate_pieces, which get_piece_at_location_mut depends on.   *)
(***************************************************************************)
EXTENDS Integers, Sequences, FiniteSets, TLC

VARIABLES
    current_turn,        \* ChessMatch.current_turn
    pieces,              \* ChessMatch.pieces (Vec<ChessPiece>)
    white_king_state,    \* ChessMatch.white_king_state
    black_king_state,    \* ChessMatch.black_king_state
    white_king_castle,   \* ChessMatch.white_king_castle
    black_king_castle,   \* ChessMatch.black_king_castle
    movement_log,        \* ChessMatch.movement_log
    aborted,             \* the process panicked (an unwrap/expect failed)
    history,             \* observer: what the caller has done so far
    probe                \* observer: the last call of a PieceLocation function

vars == <<current_turn, pieces, white_king_state, black_king_state,
          white_king_castle, black_king_castle, movement_log, aborted, history, probe>>

(***************************************************************************)
(* Bounds of the exploration.                                              *)
(***************************************************************************)
MaxPly == 13
MaxBadCalls == 1
MaxTextLen == 3
MaxProbe == 9
MaxOthers == 2

\* The requests offered to the match as its k-th call of move_piece, as pairs
\* of a piece id and a destination <<file, rank>>.  Ids are positions in the
\* generated collection (see generate_pieces).
Requests ==
    << {<<7, <<6, 3>>>>, <<3, <<2, 3>>>>, <<11, <<0, 3>>>>, <<20, <<3, 6>>>>, <<1, <<0, 5>>>>},
       {<<20, <<3, 6>>>>, <<17, <<0, 6>>>>},
       {<<14, <<7, 3>>>>, <<15, <<0, 4>>>>, <<12, <<5, 3>>>>, <<4, <<3, 3>>>>},
       {<<29, <<7, 3>>>>, <<32, <<3, 7>>>>, <<17, <<0, 6>>>>},
       {<<12, <<5, 3>>>>, <<14, <<3, 7>>>>, <<14, <<7, 3>>>>, <<13, <<4, 3>>>>},
       {<<17, <<0, 6>>>>, <<32, <<3, 7>>>>, <<17, <<0, 5>>>>},
       {<<16, <<6, 1>>>>, <<16, <<5, 1>>>>, <<15, <<3, 2>>>>},
       {<<24, <<7, 5>>>>},
       {<<16, <<6, 1>>>>, <<16, <<2, 1>>>>} >>

\* Further lines of play, each followed from the first call on: the advance of
\* the a-pawn by two squares, the fool's mate with the calls that follow it,
\* a king that walks e1-f1-g2-g1 after its queen has gone to f1, and a
\* bishop that leaves f1 while the bishop on a6 bears on it.
Scripts ==
    << << {<<1, <<0, 4>>>>}, {<<20, <<3, 6>>>>}, {<<1, <<0, 6>>>>, <<1, <<0, 5>>>>} >>,
       << {<<6, <<5, 3>>>>}, {<<21, <<4, 5>>>>}, {<<7, <<6, 4>>>>}, {<<31, <<7, 4>>>>},
          {<<14, <<7, 3>>>>, <<1, <<0, 3>>>>, <<17, <<0, 6>>>>} >>,
       << {<<12, <<5, 3>>>>}, {<<17, <<0, 6>>>>}, {<<7, <<6, 3>>>>}, {<<17, <<0, 5>>>>},
          {<<14, <<7, 3>>>>}, {<<17, <<0, 4>>>>}, {<<16, <<5, 1>>>>}, {<<24, <<7, 6>>>>},
          {<<16, <<6, 2>>>>}, {<<24, <<7, 5>>>>}, {<<15, <<5, 1>>>>}, {<<18, <<1, 6>>>>},
          {<<16, <<6, 1>>>>} >>,
       << {<<5, <<4, 4>>>>}, {<<18, <<1, 6>>>>}, {<<12, <<5, 3>>>>}, {<<29, <<0, 6>>>>},
          {<<14, <<4, 2>>>>} >> >>

(***************************************************************************)
(* piece_location.rs                                                       *)
(***************************************************************************)
NumFiles == 8
MaxRank == 8
MinRank == 1

None == <<>>

Loc(file, rank) == <<file, rank>>

Locations == {Loc(f, r) : f \in 0..(NumFiles - 1), r \in MinRank..MaxRank}

get_next_file(l) == IF l[1] + 1 < NumFiles THEN l[1] + 1 ELSE -1

\* The previous file that stops one file short of the first.
get_previous_file_short(l) == IF l[1] - 1 > 0 THEN l[1] - 1 ELSE -1

get_previous_file(l) == IF l[1] - 1 >= 0 THEN l[1] - 1 ELSE -1

\* match f { Some(f) => Some(PieceLocation { rank, file: f }), None => None }
WithFile(l, f) == IF f # -1 THEN Loc(f, l[2]) ELSE None

move_east(l) == WithFile(l, get_next_file(l))

move_west(l) == WithFile(l, get_previous_file(l))

move_north(l) == IF l[2] = MaxRank THEN None ELSE Loc(l[1], l[2] + 1)

move_south(l) == IF l[2] = MinRank THEN None ELSE Loc(l[1], l[2] - 1)

\* The file of the horizontal step and the rank of the vertical step, when
\* both steps stay on the board.
Diagonal(horizontal, vertical) ==
    IF horizontal # None /\ vertical # None THEN Loc(horizontal[1], vertical[2]) ELSE None

move_north_east(l) == Diagonal(move_east(l), move_north(l))

move_south_east(l) == Diagonal(move_east(l), move_south(l))

move_north_west(l) == Diagonal(move_west(l), move_north(l))

move_south_west(l) == Diagonal(move_west(l), move_south(l))

\* get_x_y: (file index, rank - 1)
get_x_y(l) == <<l[1], l[2] - 1>>

(***************************************************************************)
(* piece_location.rs: the constructors.  Here a PieceLocation is the       *)
(* struct itself, a file string and a u32 rank, so that out-of-range       *)
(* instances can be written down; a text is a sequence of characters.      *)
(***************************************************************************)
FILES == <<"a", "b", "c", "d", "e", "f", "g", "h">>

\* FILES.iter().position(|&r| r == file), -1 for None
Position(file) ==
    IF \E k \in 1..Len(FILES) : FILES[k] = file
    THEN CHOOSE k \in 0..(Len(FILES) - 1) : FILES[k + 1] = file
    ELSE -1

PieceLocation(file, rank) == [file |-> file, rank |-> rank]

Ok(location) == [kind |-> "Ok", location |-> location]

Err(message) == [kind |-> "Err", message |-> message]

\* An unwrap of None: the process panics.
Panic == [kind |-> "Panic"]

\* char::to_digit(10), -1 for None
to_digit(c) ==
    CASE c = "0" -> 0 [] c = "1" -> 1 [] c = "2" -> 2 [] c = "3" -> 3 [] c = "4" -> 4
      [] c = "5" -> 5 [] c = "6" -> 6 [] c = "7" -> 7 [] c = "8" -> 8 [] c = "9" -> 9
      [] OTHER -> -1

\* The checks of the rank and of the file, in the order of the source.
Checked(file, rank) ==
    IF rank < 1 \/ rank > 8 THEN Err("Rank out of bounds")
    ELSE IF Position(file) = -1 THEN Err("File out of bounds")
    ELSE Ok(PieceLocation(file, rank))

\* Some(r) => r.to_digit(10).unwrap()
Unwrapped(file, digit) == IF digit = -1 THEN Panic ELSE Checked(file, digit)

new_from_string(text) ==
    IF Len(text) # 2 THEN Err("Invalid length")
    ELSE Unwrapped(text[1], to_digit(text[2]))

PieceLocation_new(file, rank) == Ok(PieceLocation(file, rank))

\* FILES.get(x as usize).unwrap(): a negative x casts to an index past the end.
\* y as u32 is y for the y >= 0 the calls are made with.
new_from_x_y(x, y) ==
    IF x >= 0 /\ x < Len(FILES)
    THEN Ok(PieceLocation(FILES[x + 1], y))
    ELSE Panic

(***************************************************************************)
(* piece_base.rs: ChessPiece                                               *)
(***************************************************************************)
Contains(vec, x) == \E i \in 1..Len(vec) : vec[i] = x

ChessPiece(id, piece_type, color, location) ==
    [id |-> id, piece_type |-> piece_type, color |-> color, location |-> location,
     captured |-> FALSE, first_move |-> TRUE,
     valid_moves |-> <<>>, valid_captures |-> <<>>]

\* A move that leaves the first-move flag as it is.
set_moved_unmarked(p, location) == [p EXCEPT !.location = location]

set_moved(p, location) == [p EXCEPT !.first_move = FALSE, !.location = location]

set_captured(p) == [p EXCEPT !.captured = TRUE]

add_valid_move(p, location) ==
    IF Contains(p.valid_moves, location) THEN p
    ELSE [p EXCEPT !.valid_moves = Append(@, location)]

add_valid_capture(p, location) ==
    IF Contains(p.valid_captures, location) THEN p
    ELSE [p EXCEPT !.valid_captures = Append(@, location)]

clear_all_moves(p) == [p EXCEPT !.valid_captures = <<>>, !.valid_moves = <<>>]

has_any_valid_moves_or_captures(p) == p.valid_moves # <<>> \/ p.valid_captures # <<>>

(***************************************************************************)
(* chess_match.rs: queries over the piece collection.  A match is a record *)
(* with the fields of ChessMatch.                                          *)
(***************************************************************************)
\* The whole collection, the captured pieces with the others.
get_pieces_held(m) == m.pieces

get_pieces_in_play(m) == SelectSeq(m.pieces, LAMBDA p : ~p.captured)

get_player_pieces_in_play(m, player) ==
    SelectSeq(get_pieces_in_play(m), LAMBDA p : p.color = player)

get_player_pieces_by_type(m, player, piece_type) ==
    SelectSeq(get_player_pieces_in_play(m, player), LAMBDA p : p.piece_type = piece_type)

get_kings(m) == SelectSeq(get_pieces_in_play(m), LAMBDA p : p.piece_type = "King")

MinOf(S) == CHOOSE i \in S : \A j \in S : i <= j

\* Index in m.pieces of the piece with the id (ids are unique), 0 when there is none.
IndexOfId(m, piece_id) ==
    LET S == {i \in 1..Len(m.pieces) : m.pieces[i].id = piece_id}
    IN  IF S = {} THEN 0 ELSE MinOf(S)

\* Index of the first piece standing on the location, captured or not, 0 when none.
get_piece_at_location_mut(m, location) ==
    LET S == {i \in 1..Len(m.pieces) : m.pieces[i].location = location}
    IN  IF S = {} THEN 0 ELSE MinOf(S)

\* The occupant peek_location finds on each square: the color of the first piece
\* in play standing there, "None" for a square without one.
Occupancy(m) ==
    LET inplay == get_pieces_in_play(m)
    IN  [l \in Locations |->
            LET S == {i \in 1..Len(inplay) : inplay[i].location = l}
            IN  IF S = {} THEN "None" ELSE inplay[MinOf(S)].color]

peek_location(self, location, occ) ==
    IF occ[location] # "None"
    THEN IF occ[location] = self.color THEN "Blocked" ELSE "Capture"
    ELSE "Empty"

Step(direction, location) ==
    CASE direction = "East" -> move_east(location)
      [] direction = "North" -> move_north(location)
      [] direction = "South" -> move_south(location)
      [] direction = "West" -> move_west(location)
      [] direction = "NorthEast" -> move_north_east(location)
      [] direction = "NorthWest" -> move_north_west(location)
      [] direction = "SouthEast" -> move_south_east(location)
      [] direction = "SouthWest" -> move_south_west(location)

PeekResult(self, occ, direction_location) ==
    IF direction_location = None
    THEN [location |-> None, state |-> "OutOfBounds"]
    ELSE [location |-> direction_location,
          state |-> peek_location(self, direction_location, occ)]

\* A peek that starts on the piece's own square whatever square is given.
peek_direction_from_own(self, occ, direction, location) ==
    PeekResult(self, occ, Step(direction, self.location))

\* location = None stands for the piece's own square.
peek_direction(self, occ, direction, location) ==
    PeekResult(self, occ,
               Step(direction, IF location # None THEN location ELSE self.location))

RECURSIVE walk_direction(_, _, _, _, _, _)

\* A walk that goes on behind a piece it can capture.
WalkOnThrough(self, direction, location, occ, num_steps, current_step, st) ==
    CASE st \in {"OutOfBounds", "Blocked"} -> self
      [] st = "Capture" ->
            walk_direction([self EXCEPT !.valid_captures = Append(@, location)], direction,
                           peek_direction(self, occ, direction, location).location, occ,
                           num_steps, current_step)
      [] st = "Empty" ->
            walk_direction([self EXCEPT !.valid_moves = Append(@, location)], direction,
                           peek_direction(self, occ, direction, location).location, occ,
                           num_steps, current_step)

\* The arms of the match on peek_location in walk_direction.
WalkOn(self, direction, location, occ, num_steps, current_step, st) ==
    CASE st \in {"OutOfBounds", "Blocked"} -> self
      [] st = "Capture" -> [self EXCEPT !.valid_captures = Append(@, location)]
      [] st = "Empty" ->
            walk_direction([self EXCEPT !.valid_moves = Append(@, location)], direction,
                           peek_direction(self, occ, direction, location).location, occ,
                           num_steps, current_step)

walk_direction(self, direction, location, occ, num_steps, current_step) ==
    IF location = None THEN self
    ELSE IF num_steps > 0 /\ current_step = num_steps THEN self
    ELSE WalkOn(self, direction, location, occ, num_steps, current_step + 1,
                peek_location(self, location, occ))

\* The forward peek that looks two squares ahead whether or not the pawn has moved.
ForwardResultsAlways(self, occ, direction, result) ==
    IF result.state = "Empty"
    THEN <<result, peek_direction(self, occ, direction, result.location)>>
    ELSE <<result>>

ForwardResults(self, occ, direction, result) ==
    IF self.first_move /\ result.state = "Empty"
    THEN <<result, peek_direction(self, occ, direction, result.location)>>
    ELSE <<result>>

ForwardDirection(self) == IF self.color = "White" THEN "North" ELSE "South"

peek_forward(self, occ) ==
    ForwardResults(self, occ, ForwardDirection(self),
                   peek_direction(self, occ, ForwardDirection(self), None))

(***************************************************************************)
(* chess_match.rs: the attack test used by castling.                       *)
(***************************************************************************)
location_is_being_attacked(m, location, defending_player) ==
    LET ps == get_player_pieces_in_play(m,
                 IF defending_player = "White" THEN "Black" ELSE defending_player)
    IN  \E i \in 1..Len(ps) : Contains(ps[i].valid_captures, location)

locations_are_being_attacked(m, locations, defending_player) ==
    \E i \in 1..Len(locations) :
        location_is_being_attacked(m, locations[i], defending_player)

(***************************************************************************)
(* move_resolver.rs: raw generation per piece type.  Each for loop of the  *)
(* source is a recursive operator over the index of the loop.              *)
(***************************************************************************)
AllDirections ==
    <<"NorthEast", "SouthEast", "NorthWest", "SouthWest", "East", "South", "West", "North">>

DiagonalDirections == <<"NorthEast", "SouthEast", "NorthWest", "SouthWest">>

CardinalDirections == <<"East", "South", "West", "North">>

secondary_directions(d) ==
    CASE d = "North" -> <<"NorthEast", "NorthWest">>
      [] d = "East" -> <<"NorthEast", "SouthEast">>
      [] d = "South" -> <<"SouthEast", "SouthWest">>
      [] d = "West" -> <<"NorthWest", "SouthWest">>

\* A step that takes a capture for any occupied square, a square of an own
\* piece included.
AddPeekedOccupied(piece, peek) ==
    IF peek.state = "Empty" THEN add_valid_move(piece, peek.location)
    ELSE IF peek.state \in {"Capture", "Blocked"}
         THEN add_valid_capture(piece, peek.location)
    ELSE piece

\* Empty -> move, Capture -> capture, anything else -> nothing.
AddPeeked(piece, peek) ==
    IF peek.state = "Empty" THEN add_valid_move(piece, peek.location)
    ELSE IF peek.state = "Capture" THEN add_valid_capture(piece, peek.location)
    ELSE piece

\* The state of a for loop over a vector: the piece being built and the index
\* of the next element.
Iteration(piece, i) == [piece |-> piece, i |-> i]

RECURSIVE KingLoop(_, _, _)
KingLoop(it, occ, directions) ==
    IF it.i > Len(directions) THEN it.piece
    ELSE KingLoop(Iteration(AddPeeked(it.piece,
                                      peek_direction(it.piece, occ, directions[it.i], None)),
                            it.i + 1),
                  occ, directions)

calculate_king_moves(piece, occ) == KingLoop(Iteration(piece, 1), occ, AllDirections)

RECURSIVE WalkLoop(_, _, _)
WalkLoop(it, occ, directions) ==
    IF it.i > Len(directions) THEN it.piece
    ELSE WalkLoop(Iteration(walk_direction(
                                it.piece, directions[it.i],
                                peek_direction(it.piece, occ, directions[it.i], None).location,
                                occ, 0, 1),
                            it.i + 1),
                  occ, directions)

calculate_queen_moves(piece, occ) == WalkLoop(Iteration(piece, 1), occ, AllDirections)

calculate_bishop_moves(piece, occ) == WalkLoop(Iteration(piece, 1), occ, DiagonalDirections)

\* A rook that walks the diagonals as well.
calculate_rook_moves_all_ways(piece, occ) == WalkLoop(Iteration(piece, 1), occ, AllDirections)

calculate_rook_moves(piece, occ) == WalkLoop(Iteration(piece, 1), occ, CardinalDirections)

RECURSIVE KnightSecondLoop(_, _, _, _)
KnightSecondLoop(it, occ, loc, secondary) ==
    IF it.i > Len(secondary) THEN it.piece
    ELSE KnightSecondLoop(Iteration(AddPeeked(it.piece,
                                              peek_direction(it.piece, occ, secondary[it.i], loc)),
                                    it.i + 1),
                          occ, loc, secondary)

\* A knight that cannot jump: it stops at an occupied first square.
KnightFromEmpty(piece, occ, direction, peek) ==
    IF peek.state # "Empty" THEN piece
    ELSE KnightSecondLoop(Iteration(piece, 1), occ, peek.location,
                          secondary_directions(direction))

\* The body of the loop over the four cardinal directions.
KnightFrom(piece, occ, direction, peek) ==
    IF peek.state = "OutOfBounds" THEN piece
    ELSE KnightSecondLoop(Iteration(piece, 1), occ, peek.location,
                          secondary_directions(direction))

RECURSIVE KnightLoop(_, _, _)
KnightLoop(it, occ, directions) ==
    IF it.i > Len(directions) THEN it.piece
    ELSE KnightLoop(Iteration(KnightFrom(it.piece, occ, directions[it.i],
                                         peek_direction(it.piece, occ, directions[it.i], None)),
                              it.i + 1),
                    occ, directions)

calculate_knight_moves(piece, occ) == KnightLoop(Iteration(piece, 1), occ, CardinalDirections)

\* A forward step that also takes the piece standing ahead.
AddIfNotBlocked(piece, r) ==
    IF r.state = "Empty" THEN add_valid_move(piece, r.location)
    ELSE IF r.state = "Capture" THEN add_valid_capture(piece, r.location)
    ELSE piece

AddIfEmpty(piece, r) ==
    IF r.state = "Empty" THEN add_valid_move(piece, r.location) ELSE piece

AddIfCapture(piece, r) ==
    IF r.state = "Capture" THEN add_valid_capture(piece, r.location) ELSE piece

RECURSIVE PawnForwardLoop(_, _)
PawnForwardLoop(it, forward_results) ==
    IF it.i > Len(forward_results) THEN it.piece
    ELSE PawnForwardLoop(Iteration(AddIfEmpty(it.piece, forward_results[it.i]), it.i + 1),
                         forward_results)

RECURSIVE PawnCaptureLoop(_, _, _)
PawnCaptureLoop(it, occ, directions) ==
    IF it.i > Len(directions) THEN it.piece
    ELSE PawnCaptureLoop(Iteration(AddIfCapture(it.piece,
                                                peek_direction(it.piece, occ, directions[it.i],
                                                               None)),
                                   it.i + 1),
                         occ, directions)

PawnCaptureDirections(piece) ==
    IF piece.color = "White" THEN <<"NorthEast", "NorthWest">>
    ELSE <<"SouthEast", "SouthWest">>

calculate_pawn_moves(piece, occ) ==
    PawnCaptureLoop(Iteration(PawnForwardLoop(Iteration(piece, 1), peek_forward(piece, occ)), 1),
                    occ, PawnCaptureDirections(piece))

(***************************************************************************)
(* move_resolver.rs: castling.  The operators return the king together     *)
(* with the records add_valid_castle pushes to the castle vector of the    *)
(* king's color (pushed).                                                  *)
(***************************************************************************)
add_valid_castle(piece, p_loc, p2_loc, rook, pushed) ==
    LET kcd == [king_id |-> piece.id, king_target_location |-> p2_loc,
                rook_id |-> rook.id, rook_target_location |-> p_loc,
                side |-> IF get_x_y(rook.location)[1] = 0 THEN "QueenSide" ELSE "KingSide"]
    IN  [piece |-> add_valid_move(add_valid_move(piece, p_loc), p2_loc),
         pushed |-> Append(pushed, kcd)]

Unchanged(piece, pushed) == [piece |-> piece, pushed |-> pushed]

\* "king can only castle if he does not pass through or land in check"
CastleIfSafe(piece, rook, m, pushed, p_loc, p2_loc) ==
    IF ~locations_are_being_attacked(m, <<p_loc, p2_loc>>, piece.color)
    THEN add_valid_castle(piece, p_loc, p2_loc, rook, pushed)
    ELSE Unchanged(piece, pushed)

\* The fourth peek: "check once more for the rook".
CastleStep4(piece, rook, m, pushed, p_loc, p2_loc, peek_result4) ==
    IF peek_result4.location = rook.location
    THEN CastleIfSafe(piece, rook, m, pushed, p_loc, p2_loc)
    ELSE Unchanged(piece, pushed)

\* The third peek: "this is either the rook's location, or needs to be empty".
CastleStep3(piece, rook, m, occ, pushed, direction, p_loc, p2_loc, peek_result3) ==
    IF peek_result3.location = rook.location
    THEN CastleIfSafe(piece, rook, m, pushed, p_loc, p2_loc)
    ELSE IF peek_result3.state = "Empty"
    THEN CastleStep4(piece, rook, m, pushed, p_loc, p2_loc,
                     peek_direction(piece, occ, direction, peek_result3.location))
    ELSE Unchanged(piece, pushed)

CastleStep2(piece, rook, m, occ, pushed, direction, p_loc, peek_result2) ==
    IF peek_result2.state = "Empty"
    THEN CastleStep3(piece, rook, m, occ, pushed, direction, p_loc, peek_result2.location,
                     peek_direction(piece, occ, direction, peek_result2.location))
    ELSE Unchanged(piece, pushed)

CastleStep1(piece, rook, m, occ, pushed, direction, peek_result) ==
    IF peek_result.state = "Empty"
    THEN CastleStep2(piece, rook, m, occ, pushed, direction, peek_result.location,
                     peek_direction(piece, occ, direction, peek_result.location))
    ELSE Unchanged(piece, pushed)

CastleDirection(rook) == IF get_x_y(rook.location)[1] = 0 THEN "West" ELSE "East"

\* One iteration of the loop over the rooks.
CastleWithRook(piece, rook, m, occ, pushed) ==
    IF ~rook.first_move THEN Unchanged(piece, pushed)
    ELSE CastleStep1(piece, rook, m, occ, pushed, CastleDirection(rook),
                     peek_direction(piece, occ, CastleDirection(rook), piece.location))

\* The loop over the rooks; its state is the king, the records pushed so far
\* and the index of the next rook.
CastleIteration(r, i) == [piece |-> r.piece, pushed |-> r.pushed, i |-> i]

RECURSIVE CastleLoop(_, _, _, _)
CastleLoop(it, rooks, m, occ) ==
    IF it.i > Len(rooks) THEN Unchanged(it.piece, it.pushed)
    ELSE CastleLoop(CastleIteration(CastleWithRook(it.piece, rooks[it.i], m, occ, it.pushed),
                                    it.i + 1),
                    rooks, m, occ)

calculate_king_can_castle(piece, m, occ) ==
    IF piece.piece_type # "King" \/ ~piece.first_move
    THEN Unchanged(piece, <<>>)
    ELSE CastleLoop(CastleIteration(Unchanged(piece, <<>>), 1),
                    get_player_pieces_by_type(m, piece.color, "Rook"), m, occ)

CalculateCleared(cleared, m, occ) ==
    CASE cleared.piece_type = "Pawn" -> Unchanged(calculate_pawn_moves(cleared, occ), <<>>)
      [] cleared.piece_type = "Rook" -> Unchanged(calculate_rook_moves(cleared, occ), <<>>)
      [] cleared.piece_type = "Knight" -> Unchanged(calculate_knight_moves(cleared, occ), <<>>)
      [] cleared.piece_type = "Bishop" -> Unchanged(calculate_bishop_moves(cleared, occ), <<>>)
      [] cleared.piece_type = "Queen" -> Unchanged(calculate_queen_moves(cleared, occ), <<>>)
      [] cleared.piece_type = "King" ->
            calculate_king_can_castle(calculate_king_moves(cleared, occ), m, occ)

CalculatePiece(p, m, occ) == CalculateCleared(clear_all_moves(p), m, occ)

\* The records pushed to the castle vector of the color, in the order of the loop.
RECURSIVE PushedIn(_, _)
PushedIn(results, S) ==
    IF S = {} THEN <<>>
    ELSE results[MinOf(S)].pushed \o PushedIn(results, S \ {MinOf(S)})

PushedBy(results, color) ==
    PushedIn(results, {i \in 1..Len(results) :
                            results[i].piece.color = color /\ results[i].pushed # <<>>})

set_pieces(m, ps) == [m EXCEPT !.pieces = ps]

\* The match after the loop: the castle vectors with the pushes, and set_pieces.
Resolved(m, results) ==
    set_pieces([m EXCEPT !.white_king_castle = @ \o PushedBy(results, "White"),
                         !.black_king_castle = @ \o PushedBy(results, "Black")],
               [i \in 1..Len(results) |-> results[i].piece])

ResolveAll(m, inplay, occ) ==
    Resolved(m, [i \in 1..Len(inplay) |-> CalculatePiece(inplay[i], m, occ)])

MoveResolver_calculate_valid_moves(m) == ResolveAll(m, get_pieces_in_play(m), Occupancy(m))

(***************************************************************************)
(* move_resolver.rs: one-ply simulation on a copy of the match.            *)
(***************************************************************************)
\* Index of the first piece of the type and color in the collection, 0 when none.
get_piece_by_type_and_color_mut(m, piece_type, color) ==
    LET S == {i \in 1..Len(m.pieces) :
                m.pieces[i].piece_type = piece_type /\ m.pieces[i].color = color}
    IN  IF S = {} THEN 0 ELSE MinOf(S)

\* Some piece in play has the square of the piece at index k among its captures.
InCheckAt(m, k) ==
    /\ k # 0
    /\ \E i \in 1..Len(m.pieces) :
            /\ ~m.pieces[i].captured
            /\ Contains(m.pieces[i].valid_captures, m.pieces[k].location)

\* calculate_king_in_check.  The source keeps the two results in the copy; here
\* they are the value of the operator, with the unwrap of a missing king.
KingInCheckResult(m, wk, bk) ==
    [white_king_in_check |-> InCheckAt(m, wk),
     black_king_in_check |-> InCheckAt(m, bk),
     panicked |-> (wk = 0 \/ bk = 0)]

calculate_king_in_check(m) ==
    KingInCheckResult(m, get_piece_by_type_and_color_mut(m, "King", "White"),
                      get_piece_by_type_and_color_mut(m, "King", "Black"))

MovedAt(m, i, location) == [m EXCEPT !.pieces[i] = set_moved(@, location)]

CapturedAt(m, j) == [m EXCEPT !.pieces[j] = set_captured(@)]

\* The copy after calculate_valid_moves, and whether calculate_king_in_check
\* failed on it.
Simulated(copy) == [m |-> copy, panicked |-> calculate_king_in_check(copy).panicked]

simulate_move(m, piece, location) ==
    Simulated(MoveResolver_calculate_valid_moves(MovedAt(m, IndexOfId(m, piece.id), location)))

\* The source moves the capturing piece first and then marks as captured the
\* first piece of the collection standing on the target square.
CaptureFirstAt(moved, target_location) ==
    CapturedAt(moved, get_piece_at_location_mut(moved, target_location))

simulate_capture(m, piece, target_location) ==
    Simulated(MoveResolver_calculate_valid_moves(
        CaptureFirstAt(MovedAt(m, IndexOfId(m, piece.id), target_location), target_location)))

(***************************************************************************)
(* The king-status classification and the self-check filter of the        *)
(* resolution cycle (is_king_in_check_or_stale_mate, override_valid_moves),*)
(* from sections 4.4(3) and 4.4(5) of the specification: every candidate   *)
(* of the king's color is applied to a copy, the copy is regenerated, and  *)
(* the candidate is retained when the copy's king is not capturable.       *)
(***************************************************************************)
Opponent(color) == IF color = "White" THEN "Black" ELSE "White"

\* Some piece in play of the other color has the square of the piece at index k
\* among its captures.
CapturableAt(m, color, k) ==
    /\ k # 0
    /\ \E i \in 1..Len(m.pieces) :
            /\ ~m.pieces[i].captured
            /\ m.pieces[i].color = Opponent(color)
            /\ Contains(m.pieces[i].valid_captures, m.pieces[k].location)

KingCapturable(m, color) ==
    CapturableAt(m, color, get_piece_by_type_and_color_mut(m, "King", color))

\* What a simulation says of a candidate: the simulation failed, or the king
\* of the color is capturable in the copy, or it is not.
Judged(simulated, color) ==
    IF simulated.panicked THEN "Panicked"
    ELSE IF KingCapturable(simulated.m, color) THEN "Unsafe" ELSE "Safe"

SafeMove(m, p, l) == Judged(simulate_move(m, p, l), p.color)

SafeCapture(m, p, l) == Judged(simulate_capture(m, p, l), p.color)

\* The loops over the candidates of a piece; their state is the candidates
\* retained, whether a simulation has failed, and the index of the next one.
SimulationIteration(kept, panicked, i) == [kept |-> kept, panicked |-> panicked, i |-> i]

Judge(it, vec, outcome) ==
    SimulationIteration(IF outcome = "Safe" THEN Append(it.kept, vec[it.i]) ELSE it.kept,
                        it.panicked \/ outcome = "Panicked", it.i + 1)

RECURSIVE RetainedMovesLoop(_, _, _)
RetainedMovesLoop(it, m, p) ==
    IF it.panicked \/ it.i > Len(p.valid_moves) THEN it
    ELSE RetainedMovesLoop(Judge(it, p.valid_moves, SafeMove(m, p, p.valid_moves[it.i])), m, p)

RECURSIVE RetainedCapturesLoop(_, _, _)
RetainedCapturesLoop(it, m, p) ==
    IF it.panicked \/ it.i > Len(p.valid_captures) THEN it
    ELSE RetainedCapturesLoop(Judge(it, p.valid_captures,
                                    SafeCapture(m, p, p.valid_captures[it.i])), m, p)

RetainedMoves(m, p) == RetainedMovesLoop(SimulationIteration(<<>>, FALSE, 1), m, p)

RetainedCaptures(m, p) == RetainedCapturesLoop(SimulationIteration(<<>>, FALSE, 1), m, p)

RetainedFrom(id, moves, captures) ==
    [id |-> id, moves |-> moves.kept, captures |-> captures.kept,
     panicked |-> moves.panicked \/ captures.panicked]

Retained(m, p) == RetainedFrom(p.id, RetainedMoves(m, p), RetainedCaptures(m, p))

\* The retained candidates of every piece in play of the color.
RetainedIn(m, ps) == [i \in 1..Len(ps) |-> Retained(m, ps[i])]

RetainedOf(m, color) == RetainedIn(m, get_player_pieces_in_play(m, color))

PriorKingState(m, color) ==
    IF color = "White" THEN m.white_king_state ELSE m.black_king_state

Classify(attacked, no_moves, prior) ==
    IF no_moves
    THEN IF attacked THEN "InCheckMate" ELSE "InStaleMate"
    ELSE IF attacked THEN "InCheck"
    ELSE IF prior = "InCheck" THEN "NotInCheckMate"
    ELSE "NotInCheck"

HasNone(r) == r.moves = <<>> /\ r.captures = <<>>

\* The retained candidates are read by the cycle only for a king in check.
CheckStateOf(king_state, retained, panicked) ==
    [king_state |-> king_state, retained |-> retained,
     panicked |-> panicked \/ \E i \in 1..Len(retained) : retained[i].panicked]

CheckState(m, color, king_state, panicked) ==
    CheckStateOf(king_state,
                 IF ~panicked /\ king_state = "InCheck" THEN RetainedOf(m, color) ELSE <<>>,
                 panicked)

Classified(m, king, own) ==
    CheckState(m, king.color,
               Classify(KingCapturable(m, king.color), HasNone(own),
                        PriorKingState(m, king.color)),
               own.panicked)

is_king_in_check_or_stale_mate(king, m) == Classified(m, king, Retained(m, king))

\* The caches of the pieces named in the retained list become the retained
\* candidates.
Overridden(p, retained) ==
    LET S == {i \in 1..Len(retained) : retained[i].id = p.id}
    IN  IF S = {} THEN p
        ELSE [p EXCEPT !.valid_moves = retained[MinOf(S)].moves,
                       !.valid_captures = retained[MinOf(S)].captures]

\* An override that leaves each piece it names on the first retained square, as
\* simulations run on the match itself would.
override_valid_moves_in_place(m, retained) ==
    [m EXCEPT !.pieces =
        [i \in 1..Len(m.pieces) |->
            IF Overridden(m.pieces[i], retained) = m.pieces[i]
               \/ Overridden(m.pieces[i], retained).valid_moves = <<>>
            THEN Overridden(m.pieces[i], retained)
            ELSE set_moved(Overridden(m.pieces[i], retained),
                           Overridden(m.pieces[i], retained).valid_moves[1])]]

override_valid_moves(m, retained) ==
    [m EXCEPT !.pieces = [i \in 1..Len(m.pieces) |-> Overridden(m.pieces[i], retained)]]

(***************************************************************************)
(* ChessMatch::calculate_valid_moves: the resolution cycle.                *)
(***************************************************************************)
set_king_state(m, color, state) ==
    IF color = "White" THEN [m EXCEPT !.white_king_state = state]
    ELSE [m EXCEPT !.black_king_state = state]

\* The body of the loop over the kings: the match on check_state.king_state.
KingBody(m, king, check_state) ==
    IF check_state.panicked THEN m
    ELSE IF check_state.king_state = "InCheck"
    THEN override_valid_moves(set_king_state(m, king.color, check_state.king_state),
                              check_state.retained)
    ELSE set_king_state(m, king.color, check_state.king_state)

\* The loop over the kings; its state is the match, whether a simulation has
\* failed, and the index of the next king.
KingsIteration(m, panicked, i) == [m |-> m, panicked |-> panicked, i |-> i]

KingStep(it, king, check_state) ==
    KingsIteration(KingBody(it.m, king, check_state), check_state.panicked, it.i + 1)

RECURSIVE KingsLoop(_, _)
KingsLoop(it, kings) ==
    IF it.panicked \/ it.i > Len(kings) THEN [m |-> it.m, panicked |-> it.panicked]
    ELSE KingsLoop(KingStep(it, kings[it.i],
                            is_king_in_check_or_stale_mate(kings[it.i], it.m)),
                   kings)

KingsOf(resolved) == KingsLoop(KingsIteration(resolved, FALSE, 1), get_kings(resolved))

\* The match after the cycle, and whether the cycle failed.
ChessMatch_calculate_valid_moves(m) == KingsOf(MoveResolver_calculate_valid_moves(m))

(***************************************************************************)
(* movement_log.rs                                                         *)
(***************************************************************************)
MovementLogEntry(piece_id, start_location, end_location) ==
    [piece_id |-> piece_id, start_location |-> start_location,
     end_location |-> end_location, piece_captured |-> FALSE, captured_piece_id |-> 0,
     opponent_king_in_check |-> FALSE, opponent_king_in_checkmate |-> FALSE,
     castled_king_side |-> FALSE, castled_queen_side |-> FALSE]

add_log_entry(m, entry) == [m EXCEPT !.movement_log = Append(@, entry)]

\* No piece is ever promoted (got_promoted is constantly false), so the only
\* early returns are the two castle notations, which skip add_log_entry.
add_entry_to_match(m, entry) ==
    IF entry.castled_king_side \/ entry.castled_queen_side THEN m
    ELSE add_log_entry(m, entry)

(***************************************************************************)
(* chess_match.rs: move application.  The operators return the match, the  *)
(* log entry under construction and whether an unwrap panicked.            *)
(***************************************************************************)
get_current_turn_and_color(m) ==
    <<m.current_turn, IF m.current_turn = 0 THEN "White" ELSE "Black">>

change_turn(m) ==
    IF m.current_turn = 0 THEN [m EXCEPT !.current_turn = 1]
    ELSE [m EXCEPT !.current_turn = 0]

Returned(m, entry) == [m |-> m, entry |-> entry, panicked |-> FALSE]

Panicked(m, entry) == [m |-> m, entry |-> entry, panicked |-> TRUE]

\* A capture that marks the log entry without the id of the captured piece.
CaptureAtUnrecorded(m, j, entry) ==
    IF j = 0 THEN Panicked(m, entry)
    ELSE Returned(CapturedAt(m, j), [entry EXCEPT !.piece_captured = TRUE])

CaptureAt(m, j, entry) ==
    IF j = 0 THEN Panicked(m, entry)
    ELSE Returned(CapturedAt(m, j),
                  [entry EXCEPT !.piece_captured = TRUE, !.captured_piece_id = m.pieces[j].id])

handle_capture(m, location, entry) ==
    CaptureAt(m, get_piece_at_location_mut(m, location), entry)

handle_move(m, piece_id, location) == MovedAt(m, IndexOfId(m, piece_id), location)

has_king_castle_data(m, color) ==
    IF color = "White" THEN m.white_king_castle # <<>> ELSE m.black_king_castle # <<>>

Marked(entry, side) ==
    IF side = "KingSide" THEN [entry EXCEPT !.castled_king_side = TRUE]
    ELSE [entry EXCEPT !.castled_queen_side = TRUE]

\* A castle that marks the log entry and leaves the rook where it stands.
RookLeft(m, record, entry, r) ==
    IF r = 0 THEN Panicked(m, entry)
    ELSE Returned(m, Marked(entry, record.side))

\* The rook of a matching record is moved; get_piece_by_id unwraps the lookup.
RookMoved(m, record, entry, r) ==
    IF r = 0 THEN Panicked(m, entry)
    ELSE Returned(MovedAt(m, r, record.rook_target_location), Marked(entry, record.side))

\* The body of the loop over the castle records of the color.
RecordBody(m, record, target_location, entry) ==
    IF record.king_target_location = target_location
    THEN RookMoved(m, record, entry, IndexOfId(m, record.rook_id))
    ELSE Returned(m, entry)

\* The loop over the records; its state is the match, the log entry, whether
\* an unwrap has failed, and the index of the next record.
RecordsIteration(r, i) == [m |-> r.m, entry |-> r.entry, panicked |-> r.panicked, i |-> i]

RECURSIVE CastleRecordsLoop(_, _, _)
CastleRecordsLoop(it, records, target_location) ==
    IF it.panicked \/ it.i > Len(records)
    THEN [m |-> it.m, entry |-> it.entry, panicked |-> it.panicked]
    ELSE CastleRecordsLoop(RecordsIteration(RecordBody(it.m, records[it.i], target_location,
                                                       it.entry),
                                            it.i + 1),
                           records, target_location)

CastleDataOf(m, color) ==
    IF color = "White" THEN m.white_king_castle ELSE m.black_king_castle

handle_king_castle(m, piece_id, target_location, entry) ==
    IF has_king_castle_data(m, m.pieces[IndexOfId(m, piece_id)].color)
    THEN CastleRecordsLoop(RecordsIteration(Returned(m, entry), 1),
                           CastleDataOf(m, m.pieces[IndexOfId(m, piece_id)].color),
                           target_location)
    ELSE Returned(m, entry)

OpponentInCheck(piece, cycled) ==
    \/ piece.color = "Black" /\ cycled.white_king_state = "InCheck"
    \/ piece.color = "White" /\ cycled.black_king_state = "InCheck"

Logged(cycled, entry) == Returned(add_entry_to_match(cycled, entry), entry)

\* After change_turn and calculate_valid_moves: the check mark and the log.
AfterCycle(piece, entry, cycled) ==
    IF cycled.panicked THEN Panicked(cycled.m, entry)
    ELSE Logged(cycled.m, IF OpponentInCheck(piece, cycled.m)
                          THEN [entry EXCEPT !.opponent_king_in_check = TRUE] ELSE entry)

AfterCastle(piece, castled) ==
    IF castled.panicked THEN castled
    ELSE AfterCycle(piece, castled.entry,
                    ChessMatch_calculate_valid_moves(change_turn(castled.m)))

AfterMove(piece, location, entry, moved) ==
    AfterCastle(piece, IF piece.piece_type = "King"
                       THEN handle_king_castle(moved, piece.id, location, entry)
                       ELSE Returned(moved, entry))

AfterCapture(piece, location, can_move, can_capture, captured) ==
    IF captured.panicked THEN captured
    ELSE AfterMove(piece, location, captured.entry,
                   IF can_move \/ can_capture
                   THEN handle_move(captured.m, piece.id, location) ELSE captured.m)

MoveOf(m, piece, location, can_move, can_capture, movement_entry) ==
    AfterCapture(piece, location, can_move, can_capture,
                 IF can_capture THEN handle_capture(m, location, movement_entry)
                 ELSE Returned(m, movement_entry))

\* get_piece_by_id_copy expects the id to be in the collection.
move_piece(m, piece_id, location) ==
    IF IndexOfId(m, piece_id) = 0 THEN Panicked(m, None)
    ELSE MoveOf(m, m.pieces[IndexOfId(m, piece_id)], location,
                Contains(m.pieces[IndexOfId(m, piece_id)].valid_moves, location),
                Contains(m.pieces[IndexOfId(m, piece_id)].valid_captures, location),
                MovementLogEntry(piece_id, m.pieces[IndexOfId(m, piece_id)].location, location))

(***************************************************************************)
(* ChessMatch::new and generate_pieces.  Piece ids are the positions in    *)
(* the generated collection: 1..16 White, 17..32 Black; per color eight    *)
(* pawns (files a..h), rooks a and h, knights b and g, bishops c and f,    *)
(* queen, king.                                                            *)
(***************************************************************************)
PiecesPerColor == 16

GeneratedType(k) ==
    IF k <= 8 THEN "Pawn"
    ELSE CASE k \in {9, 10} -> "Rook"
           [] k \in {11, 12} -> "Knight"
           [] k \in {13, 14} -> "Bishop"
           [] k = 15 -> "Queen"
           [] k = 16 -> "King"

\* The order of pushes with the queen on file e and the king on file d.
GeneratedFileKingFirst(k) ==
    IF k <= 8 THEN k - 1
    ELSE CASE k = 9 -> 0 [] k = 10 -> 7
           [] k = 11 -> 1 [] k = 12 -> 6
           [] k = 13 -> 2 [] k = 14 -> 5
           [] k = 15 -> 4 [] k = 16 -> 3

GeneratedFile(k) ==
    IF k <= 8 THEN k - 1
    ELSE CASE k = 9 -> 0 [] k = 10 -> 7
           [] k = 11 -> 1 [] k = 12 -> 6
           [] k = 13 -> 2 [] k = 14 -> 5
           [] k = 15 -> 3 [] k = 16 -> 4

pawn_ranks(color) == IF color = "White" THEN 2 ELSE 7

other_ranks(color) == IF color = "White" THEN 1 ELSE 8

generate_pieces ==
    [n \in 1..(2 * PiecesPerColor) |->
        LET color == IF n <= PiecesPerColor THEN "White" ELSE "Black"
            k == IF n <= PiecesPerColor THEN n ELSE n - PiecesPerColor
        IN  ChessPiece(n, GeneratedType(k), color,
                       Loc(GeneratedFile(k),
                           IF k <= 8 THEN pawn_ranks(color) ELSE other_ranks(color)))]

NewMatch ==
    [current_turn |-> 0, pieces |-> generate_pieces,
     white_king_state |-> "NotInCheck", black_king_state |-> "NotInCheck",
     white_king_castle |-> <<>>, black_king_castle |-> <<>>, movement_log |-> <<>>]

(***************************************************************************)
(* The state machine.                                                      *)
(***************************************************************************)
Match ==
    [current_turn |-> current_turn, pieces |-> pieces,
     white_king_state |-> white_king_state, black_king_state |-> black_king_state,
     white_king_castle |-> white_king_castle, black_king_castle |-> black_king_castle,
     movement_log |-> movement_log]

Becomes(m) ==
    /\ current_turn' = m.current_turn
    /\ pieces' = m.pieces
    /\ white_king_state' = m.white_king_state
    /\ black_king_state' = m.black_king_state
    /\ white_king_castle' = m.white_king_castle
    /\ black_king_castle' = m.black_king_castle
    /\ movement_log' = m.movement_log

NoCall == [kind |-> "none"]

NoProbe == [op |-> "none"]

NoRecords == [white |-> <<>>, black |-> <<>>]

Init ==
    /\ current_turn = NewMatch.current_turn
    /\ pieces = NewMatch.pieces
    /\ white_king_state = NewMatch.white_king_state
    /\ black_king_state = NewMatch.black_king_state
    /\ white_king_castle = NewMatch.white_king_castle
    /\ black_king_castle = NewMatch.black_king_castle
    /\ movement_log = NewMatch.movement_log
    /\ aborted = FALSE
    /\ probe = NoProbe
    /\ history = [calls |-> 0, line |-> 0, applied |-> 0, bad |-> 0, cycled |-> FALSE,
                  fresh |-> NoRecords, last |-> NoCall]

\* The caller's view of a request: is the piece of the color to move, and is
\* the destination in one of its caches.
InTurn(m, k) == m.pieces[k].color = get_current_turn_and_color(m)[2]

OnCache(m, k, location) ==
    \/ Contains(m.pieces[k].valid_moves, location)
    \/ Contains(m.pieces[k].valid_captures, location)

KindAt(m, k, location) ==
    IF k = 0 THEN "missing"
    ELSE IF ~OnCache(m, k, location) THEN "off_cache"
    ELSE IF ~InTurn(m, k) THEN "out_of_turn"
    ELSE "legal"

KindOf(m, request) == KindAt(m, IndexOfId(m, request[1]), request[2])

\* The castle records a cycle pushed: the vectors only grow.
Suffix(old, new) == SubSeq(new, Len(old) + 1, Len(new))

Fresh(m, after) ==
    [white |-> Suffix(m.white_king_castle, after.white_king_castle),
     black |-> Suffix(m.black_king_castle, after.black_king_castle)]

\* The line of play a first request opens: 0 for Requests, s for Scripts[s].
LineOf(request) ==
    IF request \in Requests[1] THEN 0
    ELSE MinOf({s \in 1..Len(Scripts) : request \in Scripts[s][1]})

\* The outcome r of move_piece(request) on the match m becomes the state.
Outcome(m, request, kind, r) ==
    /\ Becomes(r.m)
    /\ aborted' = r.panicked
    /\ UNCHANGED probe
    /\ history' = [calls |-> history.calls + 1,
                   line |-> IF history.calls = 0 THEN LineOf(request) ELSE history.line,
                   applied |-> IF kind = "legal" /\ ~r.panicked THEN history.applied + 1
                               ELSE history.applied,
                   bad |-> IF kind = "legal" THEN history.bad ELSE history.bad + 1,
                   cycled |-> history.cycled,
                   fresh |-> IF r.panicked THEN history.fresh ELSE Fresh(m, r.m),
                   last |-> [kind |-> "move_piece", request |-> request, call |-> kind,
                             before |-> m, fresh |-> history.fresh,
                             entry |-> r.entry, panicked |-> r.panicked]]

Call(request, kind) ==
    /\ KindOf(Match, request) = kind
    /\ Outcome(Match, request, kind, move_piece(Match, request[1], request[2]))

Cycled(m, after) ==
    /\ Becomes(after.m)
    /\ aborted' = after.panicked
    /\ history' = [history EXCEPT !.cycled = TRUE,
                                  !.fresh = Fresh(m, after.m),
                                  !.last = [kind |-> "calculate_valid_moves", before |-> m]]

\* The front end runs one resolution cycle on the new match before the first move.
CalculateValidMoves ==
    /\ ~aborted
    /\ history.calls = 0
    /\ Cycled(Match, ChessMatch_calculate_valid_moves(Match))
    /\ UNCHANGED probe

\* The requests the caller may make as its next call.
RequestsOf(line, k) == IF k <= Len(line) THEN line[k] ELSE {}

RequestsNow ==
    IF history.calls = 0
    THEN Requests[1] \cup UNION {Scripts[s][1] : s \in 1..Len(Scripts)}
    ELSE RequestsOf(IF history.line = 0 THEN Requests ELSE Scripts[history.line],
                    history.calls + 1)

\* Calls are made while the process runs and the bound on calls allows.
MayCall == ~aborted /\ history.calls < MaxPly

MayCallBadly == MayCall /\ history.bad < MaxBadCalls

\* A move of the side to move to a destination of the piece's caches.
MoveLegal ==
    /\ MayCall
    /\ \E request \in RequestsNow : Call(request, "legal")

\* A move of a piece of the side not to move, to a destination of its caches.
MoveOutOfTurn ==
    /\ MayCallBadly
    /\ \E request \in RequestsNow : Call(request, "out_of_turn")

\* A move to a destination that is in neither cache of the piece.
MoveOffCache ==
    /\ MayCallBadly
    /\ \E request \in RequestsNow : Call(request, "off_cache")

\* A move of a piece that is no longer in the collection.
MoveMissing ==
    /\ MayCallBadly
    /\ \E request \in RequestsNow : Call(request, "missing")

Next == CalculateValidMoves \/ MoveLegal \/ MoveOutOfTurn \/ MoveOffCache \/ MoveMissing

Spec == Init /\ [][Next]_vars

(***************************************************************************)
(* The PieceLocation functions called on their own, on a new match that    *)
(* stays as it is.                                                         *)
(***************************************************************************)
Chars == {"a", "h", "i", "0", "1", "8", "9", "x"}

Texts == UNION {[1..n -> Chars] : n \in 0..MaxTextLen}

FileNames == {"a", "h", "i", ""}

Opposite(direction) ==
    CASE direction = "East" -> "West"
      [] direction = "West" -> "East"
      [] direction = "North" -> "South"
      [] direction = "South" -> "North"
      [] direction = "NorthEast" -> "SouthWest"
      [] direction = "SouthWest" -> "NorthEast"
      [] direction = "NorthWest" -> "SouthEast"
      [] direction = "SouthEast" -> "NorthWest"

\* The result of a constructor is kept; a panic ends the process.
Constructed(op, input, result) ==
    /\ probe' = [op |-> op, input |-> input, result |-> result]
    /\ aborted' = (result.kind = "Panic")
    /\ UNCHANGED <<current_turn, pieces, white_king_state, black_king_state,
                   white_king_castle, black_king_castle, movement_log, history>>

NewFromString ==
    /\ ~aborted
    /\ probe = NoProbe
    /\ \E text \in Texts : Constructed("new_from_string", text, new_from_string(text))

New ==
    /\ ~aborted
    /\ probe = NoProbe
    /\ \E file \in FileNames, rank \in 0..MaxProbe :
            Constructed("new", <<file, rank>>, PieceLocation_new(file, rank))

NewFromXY ==
    /\ ~aborted
    /\ probe = NoProbe
    /\ \E x \in (-1)..MaxProbe, y \in 0..MaxProbe :
            Constructed("new_from_x_y", <<x, y>>, new_from_x_y(x, y))

\* A step from a coordinate of the board, and the opposite step from where it
\* arrives.
Stepped(location, direction, result) ==
    /\ probe' = [op |-> "step", input |-> <<location, direction>>, result |-> result,
                 back |-> IF result = None THEN None ELSE Step(Opposite(direction), result)]
    /\ UNCHANGED <<current_turn, pieces, white_king_state, black_king_state,
                   white_king_castle, black_king_castle, movement_log, aborted, history>>

MoveInDirection ==
    /\ ~aborted
    /\ probe = NoProbe
    /\ \E location \in Locations, k \in 1..Len(AllDirections) :
            Stepped(location, AllDirections[k], Step(AllDirections[k], location))

NextLocation == NewFromString \/ New \/ NewFromXY \/ MoveInDirection

SpecLocation == Init /\ [][NextLocation]_vars

(***************************************************************************)
(* The raw generation of one piece on a board that holds it and a few      *)
(* other pieces near it, called on its own.                                *)
(***************************************************************************)
Colors == {"White", "Black"}

\* The squares around a location, two steps at most in file and in rank.
Around(location) ==
    {l \in Locations : /\ l # location
                       /\ l[1] - location[1] \in (-2)..2
                       /\ l[2] - location[2] \in (-2)..2}

SquareIndex(l) == l[1] * MaxRank + l[2]

Adjacent(a, b) == a # b /\ a[1] - b[1] \in (-1)..1 /\ a[2] - b[2] \in (-1)..1

\* The squares of a set where one more piece can stand: after the squares of
\* the pieces standing already, and next to each of them.
Fitting(others, squares) ==
    {l \in squares : \A k \in 1..Len(others) :
                        /\ SquareIndex(others[k][1]) < SquareIndex(l)
                        /\ Adjacent(others[k][1], l)}

\* The ways to stand up to n pieces on squares of a set: sequences of squares
\* in ascending order, next to one another, each with a color.
RECURSIVE StandingsOf(_, _)
StandingsOf(squares, n) ==
    IF n = 0 THEN {<<>>}
    ELSE StandingsOf(squares, n - 1) \cup
         UNION {{Append(others, <<l, color>>) : l \in Fitting(others, squares), color \in Colors} :
                others \in {o \in StandingsOf(squares, n - 1) : Len(o) = n - 1}}

StandingsOn(squares) == StandingsOf(squares, MaxOthers)

Standings(location) == StandingsOn(Around(location))

\* The first two squares from a location in a direction, as far as the board goes.
Ahead(location, direction) ==
    IF Step(direction, location) = None THEN {}
    ELSE IF Step(direction, Step(direction, location)) = None
         THEN {Step(direction, location)}
         ELSE {Step(direction, location), Step(direction, Step(direction, location))}

\* A pawn is on its first move exactly on the rank it is generated on.
Subject(piece_type, color, location) ==
    [ChessPiece(1, piece_type, color, location) EXCEPT
        !.first_move = (piece_type # "Pawn" \/ location[2] = pawn_ranks(color))]

\* The collection of a board: the subject first, then the other pieces.
BoardOf(subject, others) ==
    <<subject>> \o [k \in 1..Len(others) |->
                        ChessPiece(k + 1, "Queen", others[k][2], others[k][1])]

OccupancyOf(board) == Occupancy([pieces |-> board])

\* The squares a pawn of the color can stand on: it never is behind the rank
\* it is generated on.
PawnSquares(color) ==
    {l \in Locations : IF color = "White" THEN l[2] >= pawn_ranks(color)
                                          ELSE l[2] <= pawn_ranks(color)}

Generated(op, board, direction, result) ==
    /\ probe' = [op |-> op, board |-> board, direction |-> direction, result |-> result]
    /\ UNCHANGED <<current_turn, pieces, white_king_state, black_king_state,
                   white_king_castle, black_king_castle, movement_log, aborted, history>>

CalculatePawnMoves ==
    /\ ~aborted
    /\ probe = NoProbe
    /\ \E color \in Colors : \E location \in PawnSquares(color) :
       \E others \in Standings(location) :
            Generated("calculate_pawn_moves",
                      BoardOf(Subject("Pawn", color, location), others), "None",
                      calculate_pawn_moves(Subject("Pawn", color, location),
                          OccupancyOf(BoardOf(Subject("Pawn", color, location), others))))

CalculateKnightMoves ==
    /\ ~aborted
    /\ probe = NoProbe
    /\ \E location \in Locations : \E others \in Standings(location) :
            Generated("calculate_knight_moves",
                      BoardOf(Subject("Knight", "White", location), others), "None",
                      calculate_knight_moves(Subject("Knight", "White", location),
                          OccupancyOf(BoardOf(Subject("Knight", "White", location), others))))

CalculateBishopMoves ==
    /\ ~aborted
    /\ probe = NoProbe
    /\ \E location \in Locations : \E others \in Standings(location) :
            Generated("calculate_bishop_moves",
                      BoardOf(Subject("Bishop", "White", location), others), "None",
                      calculate_bishop_moves(Subject("Bishop", "White", location),
                          OccupancyOf(BoardOf(Subject("Bishop", "White", location), others))))

CalculateRookMoves ==
    /\ ~aborted
    /\ probe = NoProbe
    /\ \E location \in Locations : \E others \in Standings(location) :
            Generated("calculate_rook_moves",
                      BoardOf(Subject("Rook", "White", location), others), "None",
                      calculate_rook_moves(Subject("Rook", "White", location),
                          OccupancyOf(BoardOf(Subject("Rook", "White", location), others))))

CalculateQueenMoves ==
    /\ ~aborted
    /\ probe = NoProbe
    /\ \E location \in Locations : \E others \in Standings(location) :
            Generated("calculate_queen_moves",
                      BoardOf(Subject("Queen", "White", location), others), "None",
                      calculate_queen_moves(Subject("Queen", "White", location),
                          OccupancyOf(BoardOf(Subject("Queen", "White", location), others))))

\* One walk, started as the generation starts it: on the square the peek from
\* the piece's own square finds, with no limit of steps.  The other pieces
\* stand on the line of the walk.
WalkDirection ==
    /\ ~aborted
    /\ probe = NoProbe
    /\ \E location \in Locations : \E k \in 1..Len(AllDirections) :
       \E others \in StandingsOn(Ahead(location, AllDirections[k])) :
            Generated("walk_direction",
                      BoardOf(Subject("Queen", "Black", location), others), AllDirections[k],
                      walk_direction(Subject("Queen", "Black", location), AllDirections[k],
                          peek_direction(Subject("Queen", "Black", location),
                              OccupancyOf(BoardOf(Subject("Queen", "Black", location), others)),
                              AllDirections[k], None).location,
                          OccupancyOf(BoardOf(Subject("Queen", "Black", location), others)),
                          0, 1))

NextBoard ==
    \/ WalkDirection \/ CalculatePawnMoves \/ CalculateKnightMoves
    \/ CalculateBishopMoves \/ CalculateRookMoves \/ CalculateQueenMoves

SpecBoard == Init /\ [][NextBoard]_vars

(***************************************************************************)
(* The two peeks of a piece, called on their own, on a board that holds    *)
(* the piece, pieces in play near the square looked at, and a captured     *)
(* piece left on that square.                                              *)
(***************************************************************************)
\* The squares one step at most from a location, the location among them.
Beside(location) ==
    {l \in Locations : l[1] - location[1] \in (-1)..1 /\ l[2] - location[2] \in (-1)..1}

\* The square looked at and the square east of it (west of it on the h file).
Near(location) ==
    {location, IF move_east(location) # None THEN move_east(location)
               ELSE move_west(location)}

\* No captured piece, or one of either color, left on the square.
Fallen(location) == {<<>>} \cup {<< <<location, color>> >> : color \in Colors}

\* The square with the file and the rank counted from the other end.
Mirrored(location) == <<NumFiles - 1 - location[1], MaxRank + MinRank - location[2]>>

\* The collection: the asking piece, the captured pieces, the pieces in play.
BoardWith(subject, fallen, others) ==
    <<subject>>
    \o [k \in 1..Len(fallen) |->
            set_captured(ChessPiece(k + 1, "Queen", fallen[k][2], fallen[k][1]))]
    \o [k \in 1..Len(others) |->
            ChessPiece(Len(fallen) + k + 1, "Queen", others[k][2], others[k][1])]

Peeked(op, board, direction, location, result) ==
    /\ probe' = [op |-> op, board |-> board, direction |-> direction,
                 location |-> location, result |-> result]
    /\ UNCHANGED <<current_turn, pieces, white_king_state, black_king_state,
                   white_king_castle, black_king_castle, movement_log, aborted, history>>

PeekLocation ==
    /\ ~aborted
    /\ probe = NoProbe
    /\ \E color \in Colors : \E own \in Locations : \E location \in Beside(own) :
       \E fallen \in Fallen(location) : \E others \in StandingsOn(Near(location) \ {own}) :
            Peeked("peek_location",
                   BoardWith(Subject("Queen", color, own), fallen, others), "None", location,
                   peek_location(Subject("Queen", color, own), location,
                       OccupancyOf(BoardWith(Subject("Queen", color, own), fallen, others))))

\* The start is the piece's own square (location None) or the mirrored square.
PeekDirection ==
    /\ ~aborted
    /\ probe = NoProbe
    /\ \E own \in Locations : \E location \in {None, Mirrored(own)} :
       \E k \in 1..Len(AllDirections) :
       \E others \in StandingsOn(Ahead(IF location # None THEN location ELSE own,
                                       AllDirections[k]) \ {own}) :
       \E fallen \in UNION {Fallen(l) : l \in Ahead(IF location # None THEN location ELSE own,
                                                    AllDirections[k])} \cup {<<>>} :
            Peeked("peek_direction",
                   BoardWith(Subject("Queen", "White", own), fallen, others),
                   AllDirections[k], location,
                   peek_direction(Subject("Queen", "White", own),
                       OccupancyOf(BoardWith(Subject("Queen", "White", own), fallen, others)),
                       AllDirections[k], location))

NextPeek == PeekLocation \/ PeekDirection

SpecPeek == Init /\ [][NextPeek]_vars

(***************************************************************************)
(* What the properties below speak of.                                     *)
(***************************************************************************)
Before == history.last.before

Called(kind) == history.last.kind = "move_piece" /\ history.last.call = kind

\* A resolution cycle has run, and every call so far was a move of the side to
\* move to a destination of the piece's caches.
AfterLegalPlay == ~aborted /\ history.cycled /\ history.bad = 0

PieceById(m, id) == m.pieces[IndexOfId(m, id)]

Placements(m) ==
    {<<m.pieces[i].id, m.pieces[i].location, m.pieces[i].captured, m.pieces[i].first_move>> :
        i \in 1..Len(m.pieces)}

Destinations(vec) == {vec[k] : k \in 1..Len(vec)}

\* The position after the piece at index i goes to l, taking the piece of the
\* other color standing there, with the raw candidates generated anew.
AfterMoving(m, i, l) ==
    MoveResolver_calculate_valid_moves(
        [m EXCEPT !.pieces = [j \in 1..Len(m.pieces) |->
            IF j = i THEN set_moved(m.pieces[j], l)
            ELSE IF m.pieces[j].location = l /\ m.pieces[j].color # m.pieces[i].color
                 THEN set_captured(m.pieces[j])
                 ELSE m.pieces[j]]])

\* Moving the piece at index i to l leaves the king of its color on a square
\* in the capture set of a piece in play of the other color.
ExposesOwnKing(m, i, l) == KingCapturable(AfterMoving(m, i, l), m.pieces[i].color)

KingStateOf(color) == IF color = "White" THEN white_king_state ELSE black_king_state

KingsInPlay == {i \in 1..Len(pieces) : pieces[i].piece_type = "King" /\ ~pieces[i].captured}

\* C1: in every position reached by legal play, after the resolution cycle no
\* piece of the side to move has in its move or capture cache a destination that
\* would leave its own king capturable.
C1_NoDestinationExposesOwnKing ==
    AfterLegalPlay =>
        \A i \in 1..Len(pieces) :
            (pieces[i].color = get_current_turn_and_color(Match)[2] /\ ~pieces[i].captured) =>
                \A l \in Destinations(pieces[i].valid_moves)
                            \cup Destinations(pieces[i].valid_captures) :
                    ~ExposesOwnKing(Match, i, l)

\* C2: a call of move_piece with a destination in neither cache of the piece
\* leaves the match unchanged: no location, captured flag or first-move flag
\* changes, the turn does not flip and the log gets no entry.
C2_OffCacheCallChangesNothing ==
    Called("off_cache") =>
        /\ current_turn = Before.current_turn
        /\ movement_log = Before.movement_log
        /\ Placements(Match) = Placements(Before)

\* C3: a call of move_piece for a piece of the color that is not to move changes
\* neither the location of the piece nor the turn, even when the destination is
\* in the piece's caches.
C3_OutOfTurnCallRejected ==
    Called("out_of_turn") =>
        /\ current_turn = Before.current_turn
        /\ PieceById(Match, history.last.request[1]).location
                = PieceById(Before, history.last.request[1]).location

\* C4: the turn indicator is 0 or 1 and, after N successfully applied moves, it
\* is White's turn iff N is even.
C4_TurnFollowsAppliedMoves ==
    /\ current_turn \in {0, 1}
    /\ get_current_turn_and_color(Match)[2] = "White" <=> history.applied % 2 = 0

\* The squares strictly between two squares of one rank.
Between(a, b) ==
    {Loc(f, a[2]) : f \in {g \in 0..(NumFiles - 1) : (a[1] < g /\ g < b[1])
                                                        \/ (b[1] < g /\ g < a[1])}}

\* The square n files from the king's square toward the rook's.
Toward(king_location, rook_location, n) ==
    Loc(IF rook_location[1] > king_location[1] THEN king_location[1] + n
        ELSE king_location[1] - n,
        king_location[2])

Vacant(m, S) == \A l \in S : Occupancy(m)[l] = "None"

\* The records the latest resolution cycle pushed, for both colors.
FreshRecords == history.fresh.white \o history.fresh.black

\* C5: a resolution cycle records a castle for a king and a rook only when both
\* are on their first move, the squares between them are empty, and the king
\* would be capturable neither on the square it passes over nor on the square
\* it lands on.
C5_CastleRecordedOnlyWhenEligible ==
    AfterLegalPlay =>
        \A k \in 1..Len(FreshRecords) :
            LET i == IndexOfId(Match, FreshRecords[k].king_id)
                king == pieces[i]
                rook == PieceById(Match, FreshRecords[k].rook_id)
            IN  /\ king.first_move
                /\ rook.first_move
                /\ Vacant(Match, Between(king.location, rook.location))
                /\ ~ExposesOwnKing(Match, i, Toward(king.location, rook.location, 1))
                /\ ~ExposesOwnKing(Match, i, Toward(king.location, rook.location, 2))

\* The records of the cycle before the last call whose king and king target are
\* the piece and the destination of the call.
CastleRecordsOfCall ==
    LET fresh == history.last.fresh.white \o history.last.fresh.black
    IN  {fresh[k] : k \in {j \in 1..Len(fresh) :
                            /\ fresh[j].king_id = history.last.request[1]
                            /\ fresh[j].king_target_location = history.last.request[2]}}

\* C6: a legal move of a king to the king target of a castle record of the
\* current cycle puts the king two files from its start toward the rook and the
\* rook on the square the king passed over, clears the first-move flag of both,
\* and marks the move king-side for the rook of file h, queen-side for the rook
\* of file a.
C6_CastleMoveRelocatesKingAndRook ==
    Called("legal") =>
        \A record \in CastleRecordsOfCall :
            LET start == PieceById(Before, record.king_id).location
                corner == PieceById(Before, record.rook_id).location
                king == PieceById(Match, record.king_id)
                rook == PieceById(Match, record.rook_id)
            IN  /\ king.location = Toward(start, corner, 2)
                /\ rook.location = Toward(start, corner, 1)
                /\ ~king.first_move
                /\ ~rook.first_move
                /\ (corner[1] = NumFiles - 1 => history.last.entry.castled_king_side)
                /\ (corner[1] = 0 => history.last.entry.castled_queen_side)

\* A castle has been applied on the king's side.
C6_KingSideCastleApplied ==
    /\ Called("legal")
    /\ CastleRecordsOfCall # {}
    /\ history.last.entry.castled_king_side
    /\ PieceById(Match, history.last.request[1]).location = Loc(6, 1)

\* A castle has been applied on the queen's side.
QueenSideCastleApplied ==
    /\ Called("legal")
    /\ CastleRecordsOfCall # {}
    /\ history.last.entry.castled_queen_side

\* The rooks of the position before the last call that stand elsewhere after it.
RelocatedRooks ==
    {i \in 1..Len(Before.pieces) :
        /\ Before.pieces[i].piece_type = "Rook"
        /\ IndexOfId(Match, Before.pieces[i].id) # 0
        /\ PieceById(Match, Before.pieces[i].id).location # Before.pieces[i].location}

\* C7: a record of an earlier cycle is never honored: in legal play a move of a
\* king relocates a rook only if, in the position the move is applied to, the
\* king and that rook are on their first move with empty squares between them.
C7_KingMoveRelocatesOnlyEligibleRook ==
    (AfterLegalPlay /\ Called("legal")
        /\ PieceById(Before, history.last.request[1]).piece_type = "King") =>
        \A i \in RelocatedRooks :
            /\ PieceById(Before, history.last.request[1]).first_move
            /\ Before.pieces[i].first_move
            /\ Vacant(Before, Between(PieceById(Before, history.last.request[1]).location,
                                      Before.pieces[i].location))

\* C8: after every resolution cycle of legal play, a king is InCheckMate iff
\* its square is in the capture set of a piece in play of the other color and it
\* has no move and no capture in its caches.
C8_CheckMateIffAttackedWithoutMoves ==
    AfterLegalPlay =>
        \A i \in KingsInPlay :
            KingStateOf(pieces[i].color) = "InCheckMate"
                <=> /\ CapturableAt(Match, pieces[i].color, i)
                    /\ ~has_any_valid_moves_or_captures(pieces[i])

\* C9: after every resolution cycle of legal play, a king is InStaleMate iff
\* its square is in no capture set of a piece in play of the other color and it
\* has no move and no capture in its caches.
C9_StaleMateIffUnattackedWithoutMoves ==
    AfterLegalPlay =>
        \A i \in KingsInPlay :
            KingStateOf(pieces[i].color) = "InStaleMate"
                <=> /\ ~CapturableAt(Match, pieces[i].color, i)
                    /\ ~has_any_valid_moves_or_captures(pieces[i])

\* C10: the collection holds the 32 generated pieces in every state: a captured
\* piece stays in it and can be looked up by its id.
C10_PiecesNeverRemoved ==
    /\ Len(pieces) = 2 * PiecesPerColor
    /\ \A id \in 1..(2 * PiecesPerColor) : IndexOfId(Match, id) # 0

\* The kings in play of a color.
KingsOfColor(color) == {i \in KingsInPlay : pieces[i].color = color}

\* C11: in every state reached by moves of the side to move taken from the
\* pieces' caches there is exactly one king in play of each color.
C11_OneKingInPlayPerColor ==
    (history.cycled /\ history.bad = 0) =>
        \A color \in {"White", "Black"} : Cardinality(KingsOfColor(color)) = 1

\* C12: a call of move_piece with an id that is not in the collection, as that
\* of a piece captured earlier, does not abort and leaves the match unchanged.
C12_MissingPieceIsAnError ==
    Called("missing") =>
        /\ ~aborted
        /\ Match = Before

\* The piece types of the standard layout on the back rank, files a to h.
StandardBackRank ==
    <<"Rook", "Knight", "Bishop", "Queen", "King", "Bishop", "Knight", "Rook">>

\* The piece stands where the standard layout has a piece of its type and color.
StandardlyPlaced(p) ==
    LET pawn_rank == IF p.color = "White" THEN 2 ELSE 7
        back_rank == IF p.color = "White" THEN 1 ELSE 8
    IN  /\ p.location \in Locations
        /\ \/ p.piece_type = "Pawn" /\ p.location[2] = pawn_rank
           \/ /\ p.location[2] = back_rank
              /\ p.piece_type = StandardBackRank[p.location[1] + 1]

\* No call has been made on the match since its construction.
C13_MatchIsNew == history.last.kind = "none" /\ history.calls = 0 /\ ~history.cycled

\* C13: a new match has 32 pieces, 16 of each color, none captured, all on
\* their first move, with distinct ids and distinct squares, in the standard
\* layout; it is White's turn and both kings are NotInCheck.
C13_NewMatchIsStandard ==
    C13_MatchIsNew =>
        /\ Len(pieces) = 32
        /\ \A color \in {"White", "Black"} :
                Cardinality({i \in 1..Len(pieces) : pieces[i].color = color}) = 16
        /\ \A i \in 1..Len(pieces) :
                /\ ~pieces[i].captured
                /\ pieces[i].first_move
                /\ StandardlyPlaced(pieces[i])
        /\ \A i, j \in 1..Len(pieces) :
                i # j => /\ pieces[i].id # pieces[j].id
                         /\ pieces[i].location # pieces[j].location
        /\ current_turn = 0
        /\ get_current_turn_and_color(Match)[2] = "White"
        /\ white_king_state = "NotInCheck"
        /\ black_king_state = "NotInCheck"

\* The first call moved the white a-pawn from a2 to a4.
C14_PawnAdvancedTwo ==
    /\ Called("legal")
    /\ history.calls = 1
    /\ history.last.request = <<1, Loc(0, 4)>>

\* C14: a pawn that has moved has no advance of two squares in its moves; after
\* a2-a4 as the first move the moves of that pawn are exactly a5, it has no
\* capture, and it is Black's turn.
C14_MovedPawnHasNoDoubleAdvance ==
    /\ \A i \in 1..Len(pieces) :
            (pieces[i].piece_type = "Pawn" /\ ~pieces[i].first_move) =>
                \A l \in Destinations(pieces[i].valid_moves) :
                    l[2] - pieces[i].location[2] \in {-1, 1}
    /\ C14_PawnAdvancedTwo =>
            /\ Destinations(PieceById(Match, 1).valid_moves) = {Loc(0, 5)}
            /\ Len(PieceById(Match, 1).valid_moves) = 1
            /\ PieceById(Match, 1).valid_captures = <<>>
            /\ get_current_turn_and_color(Match)[2] = "Black"

\* The position of the match m is that after f2-f3, e7-e5, g2-g4, Qd8-h4 and
\* nothing else.
FoolsMatePosition(m) ==
    /\ Len(m.pieces) = 32
    /\ Len(m.movement_log) = 4
    /\ m.current_turn = 0
    /\ PieceById(m, 6).location = Loc(5, 3)
    /\ PieceById(m, 21).location = Loc(4, 5)
    /\ PieceById(m, 7).location = Loc(6, 4)
    /\ PieceById(m, 31).location = Loc(7, 4)

\* C15: the fool's mate leaves the white king InCheckMate, and every call of
\* move_piece made after it is rejected: it leaves the match as it was.
C15_FoolsMateEndsPlay ==
    /\ FoolsMatePosition(Match) => white_king_state = "InCheckMate"
    /\ (history.last.kind = "move_piece" /\ FoolsMatePosition(Before)) =>
            /\ ~aborted
            /\ Match = Before

\* The text is a file letter of a..h followed by a digit of 1..8.
RankDigits == <<"1", "2", "3", "4", "5", "6", "7", "8">>

ValidText(text) ==
    /\ Len(text) = 2
    /\ \E k \in 1..Len(FILES) : FILES[k] = text[1]
    /\ \E r \in 1..Len(RankDigits) : RankDigits[r] = text[2]

RankOfDigit(c) == CHOOSE r \in 1..Len(RankDigits) : RankDigits[r] = c

\* C16: new_from_string returns an error value, and does not abort, for every
\* text that is not a letter of a..h followed by a digit of 1..8, and returns
\* the coordinate of that file and rank for every other text.
C16_ParseFailsWithAnErrorValue ==
    probe.op = "new_from_string" =>
        IF ValidText(probe.input)
        THEN probe.result = Ok(PieceLocation(probe.input[1], RankOfDigit(probe.input[2])))
        ELSE probe.result.kind = "Err"

\* C17: PieceLocation::new and new_from_x_y never return a coordinate whose
\* file is outside a..h or whose rank is outside 1..8.
C17_ConstructorsStayInRange ==
    (probe.op \in {"new", "new_from_x_y"} /\ probe.result.kind = "Ok") =>
        /\ \E k \in 1..Len(FILES) : FILES[k] = probe.result.location.file
        /\ probe.result.location.rank \in 1..8

\* The unit offset of a direction in files and ranks.
Offset(direction) ==
    CASE direction = "East" -> <<1, 0>>
      [] direction = "West" -> <<-1, 0>>
      [] direction = "North" -> <<0, 1>>
      [] direction = "South" -> <<0, -1>>
      [] direction = "NorthEast" -> <<1, 1>>
      [] direction = "SouthEast" -> <<1, -1>>
      [] direction = "NorthWest" -> <<-1, 1>>
      [] direction = "SouthWest" -> <<-1, -1>>

Neighbour(location, direction) ==
    <<location[1] + Offset(direction)[1], location[2] + Offset(direction)[2]>>

\* C18: a step from a coordinate of the board is None exactly when the
\* neighbour in that direction is off the board, and is that neighbour
\* otherwise; the opposite step from there returns to the coordinate.
C18_StepIsTheNeighbourOrNone ==
    probe.op = "step" =>
        IF Neighbour(probe.input[1], probe.input[2]) \in Locations
        THEN /\ probe.result = Neighbour(probe.input[1], probe.input[2])
             /\ probe.back = probe.input[1]
        ELSE probe.result = None

\* A diagonal step from b2 to a1 has been made, and the step back.
C18_SteppedToTheCorner ==
    /\ probe.op = "step"
    /\ probe.input = <<Loc(1, 2), "SouthWest">>
    /\ probe.result = Loc(0, 1)
    /\ probe.back = Loc(1, 2)

\* The ids of the pieces in play, and the indices of the pieces in play of the
\* other color than the mover's that stand on a location.
InPlayIds(m) == {m.pieces[i].id : i \in {j \in 1..Len(m.pieces) : ~m.pieces[j].captured}}

OpposingAt(m, color, location) ==
    {i \in 1..Len(m.pieces) : /\ m.pieces[i].location = location
                              /\ ~m.pieces[i].captured
                              /\ m.pieces[i].color # color}

NewlyCaptured(m, after) ==
    {i \in 1..Len(m.pieces) : ~m.pieces[i].captured /\ after.pieces[i].captured}

\* The last call was an applied move_piece whose destination was in the
\* capture cache of the piece.
CaptureApplied ==
    /\ history.last.kind = "move_piece"
    /\ ~history.last.panicked
    /\ IndexOfId(Before, history.last.request[1]) # 0
    /\ Contains(PieceById(Before, history.last.request[1]).valid_captures,
                history.last.request[2])

\* What C19 says of the capture of the piece at index j by the piece of id
\* mover going to destination.
CapturedExactly(j, mover, destination) ==
    /\ NewlyCaptured(Before, handle_capture(Before, destination,
                                            MovementLogEntry(mover, None, destination)).m) = {j}
    /\ InPlayIds(Before) \ InPlayIds(Match) = {Before.pieces[j].id}
    /\ InPlayIds(Match) \subseteq InPlayIds(Before)
    /\ history.last.entry.piece_captured
    /\ history.last.entry.captured_piece_id = Before.pieces[j].id
    /\ IndexOfId(Match, mover) # 0
    /\ PieceById(Match, mover).location = destination
    /\ ~PieceById(Match, mover).captured

\* C19: when a move whose destination is in the capture cache of the mover is
\* applied, exactly one piece becomes captured (it leaves the pieces in play),
\* namely the piece in play of the other color that stood on the destination;
\* its id is recorded as the captured piece of the move's log entry, and the
\* mover ends on the destination.
C19_CaptureTakesThePieceOnTheDestination ==
    CaptureApplied =>
        /\ Cardinality(OpposingAt(Before, PieceById(Before, history.last.request[1]).color,
                                  history.last.request[2])) = 1
        /\ \A j \in OpposingAt(Before, PieceById(Before, history.last.request[1]).color,
                                history.last.request[2]) :
               CapturedExactly(j, history.last.request[1], history.last.request[2])

\* The black bishop of c8 has taken the white bishop on h3.
C19_BishopTakenOnH3 ==
    /\ CaptureApplied
    /\ Called("legal")
    /\ history.last.request = <<29, <<7, 3>>>>
    /\ history.last.entry.captured_piece_id = 14

\* The last call was a move_piece that returned, for a piece of the side to
\* move and a destination of its caches.
MoveApplied == Called("legal") /\ ~history.last.panicked

\* The status, after the call, of the king of the other color than the piece
\* the last call moved.
OpponentKingState ==
    KingStateOf(Opponent(PieceById(Before, history.last.request[1]).color))

\* C20: the log entry of an applied move reports the status of the opponent
\* king after the resolution cycle: opponent_king_in_check is set iff that
\* status is InCheck, and opponent_king_in_checkmate iff it is InCheckMate.
C20_EntryReportsOpponentKingState ==
    MoveApplied =>
        /\ history.last.entry.opponent_king_in_check <=> OpponentKingState = "InCheck"
        /\ history.last.entry.opponent_king_in_checkmate <=> OpponentKingState = "InCheckMate"

\* The indices of the pieces in play of a match that stand on a location.
InPlayAt(m, location) ==
    {i \in 1..Len(m.pieces) : ~m.pieces[i].captured /\ m.pieces[i].location = location}

\* C21: after any sequence of move_piece calls from the initial position, no
\* two pieces in play stand on the same square.
C21_NoSquareHoldsTwoPieces ==
    \A location \in Locations : Cardinality(InPlayAt(Match, location)) <= 1

\* Some piece in play of the other color than the defender's has the location
\* in its capture cache.
InOpposingCaptures(m, location, defending_player) ==
    \E i \in 1..Len(m.pieces) : /\ ~m.pieces[i].captured
                                /\ m.pieces[i].color # defending_player
                                /\ Contains(m.pieces[i].valid_captures, location)

\* C22: for either defending color, a square counts as attacked iff some piece
\* in play of the opposite color has the square in its capture cache.
C22_AttackedIffInOpposingCaptures ==
    \A defending_player \in {"White", "Black"} : \A location \in Locations :
        location_is_being_attacked(Match, location, defending_player)
            <=> InOpposingCaptures(Match, location, defending_player)

\* The match with the caches generated anew for the board as it stands.
RegeneratedNow == MoveResolver_calculate_valid_moves(Match)

\* The castle records a cycle pushes when its attack test reads capture sets
\* generated for the board as it stands.
RecordsOnCurrentCaches == Fresh(RegeneratedNow, MoveResolver_calculate_valid_moves(RegeneratedNow))

\* C23: no decision of a resolution cycle reads a cache computed for an
\* earlier position: the castle records pushed by the cycle of the last call
\* are those its attack test allows on the capture sets generated for the
\* current board, not on the ones left from before the last applied move.
C23_CastleTestReadsCurrentCaches ==
    (~aborted /\ history.last.kind # "none") => history.fresh = RecordsOnCurrentCaches

\* What C24 says of simulating the capture on location by the piece at index i.
SimulatedAsCapture(m, i, location) ==
    /\ m.pieces[i].id \in InPlayIds(simulate_capture(m, m.pieces[i], location).m)
    /\ PieceById(simulate_capture(m, m.pieces[i], location).m, m.pieces[i].id).location = location
    /\ \A j \in OpposingAt(m, m.pieces[i].color, location) :
           m.pieces[j].id \notin InPlayIds(simulate_capture(m, m.pieces[i], location).m)

\* C24: simulating a candidate capture on a copy of the match takes out of
\* play the opposing piece that stood on the target square and leaves the
\* capturing piece in play on that square, whatever the order of the two
\* pieces in the collection.
C24_SimulatedCaptureTakesTheTarget ==
    ~aborted =>
        \A i \in 1..Len(pieces) : \A k \in 1..Len(pieces[i].valid_captures) :
            ~pieces[i].captured => SimulatedAsCapture(Match, i, pieces[i].valid_captures[k])

\* The log of the match before the last call is the beginning of the log now.
LogKept ==
    /\ Len(Before.movement_log) <= Len(movement_log)
    /\ SubSeq(movement_log, 1, Len(Before.movement_log)) = Before.movement_log

\* C25: the move log is append-only and grows by exactly one entry for every
\* applied move, castle moves included; entries are never removed or reordered.
C25_LogGrowsByOnePerAppliedMove ==
    /\ history.last.kind # "none" => LogKept
    /\ MoveApplied => Len(movement_log) = Len(Before.movement_log) + 1

\* The color of the piece the last call moved.
MoverColor == PieceById(Before, history.last.request[1]).color

\* The king in play of the color stands on a square that is in the capture
\* cache of a piece in play of the other color.
KingAttacked(color) ==
    \E i \in KingsInPlay : /\ pieces[i].color = color
                           /\ InOpposingCaptures(Match, pieces[i].location, color)

\* C26: after every applied move and its resolution cycle the king of the side
\* that just moved is not attacked and its status is neither InCheck nor
\* InCheckMate; the two kings are never both InCheck.
C26_MoverKingIsSafe ==
    /\ MoveApplied => /\ ~KingAttacked(MoverColor)
                      /\ KingStateOf(MoverColor) \notin {"InCheck", "InCheckMate"}
    /\ ~(white_king_state = "InCheck" /\ black_king_state = "InCheck")

(***************************************************************************)
(* What the properties of the raw generation speak of: the board of the    *)
(* last generation, whose first piece is the one generated for.            *)
(***************************************************************************)
Generator == probe.board[1]

\* The color of the piece of the board standing on a square, "None" without one.
ColorAt(l) ==
    IF \E k \in 1..Len(probe.board) : probe.board[k].location = l
    THEN probe.board[CHOOSE k \in 1..Len(probe.board) : probe.board[k].location = l].color
    ELSE "None"

Shifted(l, direction, n) ==
    <<l[1] + n * Offset(direction)[1], l[2] + n * Offset(direction)[2]>>

Free(l) == l \in Locations /\ ColorAt(l) = "None"

\* The number of consecutive empty squares of the board from l in the
\* direction, given that the first n are.
RECURSIVE Reach(_, _, _)
Reach(l, direction, n) ==
    IF Free(Shifted(l, direction, n + 1)) THEN Reach(l, direction, n + 1) ELSE n

\* The run of empty squares from l in the direction, and the square that ends
\* it when that holds a piece of another color than the given one.
RunMoves(l, direction) == {Shifted(l, direction, n) : n \in 1..Reach(l, direction, 0)}

RunCaptures(l, direction, color) ==
    {t \in {Shifted(l, direction, Reach(l, direction, 0) + 1)} \cap Locations :
        ColorAt(t) \notin {"None", color}}

\* A cache holds exactly the squares of a set, each once.
Holds(vec, squares) == Destinations(vec) = squares /\ Len(vec) = Cardinality(squares)

\* C27: a walk started on the first square in a direction adds the consecutive
\* empty squares to the move cache, adds one square to the capture cache when
\* the run ends on an opposing piece, and adds nothing for an own piece or the
\* edge of the board; no square behind an occupied square is added.
C27_WalkIsTheRunAndItsEnd ==
    probe.op = "walk_direction" =>
        /\ Holds(probe.result.valid_moves, RunMoves(Generator.location, probe.direction))
        /\ Holds(probe.result.valid_captures,
                 RunCaptures(Generator.location, probe.direction, Generator.color))
        /\ Len(probe.result.valid_captures) <= 1
        /\ \A k \in 1..Len(probe.result.valid_moves) :
               probe.result.valid_moves[k] = Shifted(Generator.location, probe.direction, k)

\* A walk over one empty square onto an opposing piece, with one more piece
\* on the board.
C27_WalkedOntoAnOpposingPiece ==
    /\ probe.op = "walk_direction"
    /\ Len(probe.result.valid_moves) = 1
    /\ Len(probe.result.valid_captures) = 1
    /\ Len(probe.board) = 2

\* The square n ranks ahead of a pawn, toward rank 8 for White and rank 1 for
\* Black, and the squares one rank ahead on the neighbouring files.
PawnAhead(pawn, n) ==
    <<pawn.location[1], pawn.location[2] + (IF pawn.color = "White" THEN n ELSE 0 - n)>>

PawnDiagonals(pawn) ==
    {<<PawnAhead(pawn, 1)[1] - 1, PawnAhead(pawn, 1)[2]>>,
     <<PawnAhead(pawn, 1)[1] + 1, PawnAhead(pawn, 1)[2]>>}

PawnMoves(pawn) ==
    {l \in {PawnAhead(pawn, 1)} : Free(l)}
        \cup {l \in {PawnAhead(pawn, 2)} :
                 pawn.first_move /\ Free(PawnAhead(pawn, 1)) /\ Free(l)}

PawnCaptures(pawn) ==
    {l \in PawnDiagonals(pawn) \cap Locations : ColorAt(l) \notin {"None", pawn.color}}

\* C28: raw pawn generation yields as moves the empty square directly ahead
\* and, only for a pawn on its first move with that square empty, the empty
\* square two ahead; it yields as captures the diagonal-forward squares that
\* hold an opposing piece, and nothing else.
C28_PawnGoesAheadAndTakesDiagonally ==
    probe.op = "calculate_pawn_moves" =>
        /\ Holds(probe.result.valid_moves, PawnMoves(Generator))
        /\ Holds(probe.result.valid_captures, PawnCaptures(Generator))

\* A pawn on its first move with both squares ahead empty and an opposing
\* piece on a diagonal-forward square.
C28_FirstMoveWithACapture ==
    /\ probe.op = "calculate_pawn_moves"
    /\ Generator.first_move
    /\ Len(probe.result.valid_moves) = 2
    /\ Len(probe.result.valid_captures) = 1

\* The squares of the board a knight's jump away from a location.
KnightSquares(l) ==
    {<<l[1] + dx, l[2] + dy>> : dx \in {-2, -1, 1, 2}, dy \in {-2, -1, 1, 2}}
        \cap {t \in Locations : (t[1] - l[1]) * (t[1] - l[1]) + (t[2] - l[2]) * (t[2] - l[2]) = 5}

\* C29: for a knight on any square, the cardinal step followed by a diagonal
\* step yields exactly the squares of the board at offsets (+-1,+-2) and
\* (+-2,+-1) that hold no own piece, as moves when empty and as captures when
\* they hold an opposing piece, whether or not the square of the cardinal step
\* is occupied.
C29_KnightJumpsToTheLSquares ==
    probe.op = "calculate_knight_moves" =>
        /\ Holds(probe.result.valid_moves,
                 {t \in KnightSquares(Generator.location) : ColorAt(t) = "None"})
        /\ Holds(probe.result.valid_captures,
                 {t \in KnightSquares(Generator.location) :
                     ColorAt(t) \notin {"None", Generator.color}})

\* A knight takes a piece behind an occupied square of a cardinal step.
C29_JumpedOverAPiece ==
    /\ probe.op = "calculate_knight_moves"
    /\ \E k \in 1..Len(CardinalDirections) :
         /\ Shifted(Generator.location, CardinalDirections[k], 1) \in Locations
         /\ ColorAt(Shifted(Generator.location, CardinalDirections[k], 1)) # "None"
         /\ \E j \in 1..Len(probe.result.valid_captures) :
                Adjacent(Shifted(Generator.location, CardinalDirections[k], 1),
                         probe.result.valid_captures[j])

\* The directions a sliding piece walks.
Applicable(op) ==
    CASE op = "calculate_rook_moves" -> {"East", "South", "West", "North"}
      [] op = "calculate_bishop_moves" -> {"NorthEast", "SouthEast", "NorthWest", "SouthWest"}
      [] op = "calculate_queen_moves" ->
            {"East", "South", "West", "North", "NorthEast", "SouthEast", "NorthWest", "SouthWest"}

\* C30: raw generation for a rook, a bishop and a queen walks the orthogonal
\* directions, the diagonals and both: in each such direction the destinations
\* are exactly the run of empty squares up to the first occupied square, plus
\* that square when it holds an opposing piece, and there are no others.
C30_SlidersWalkTheirDirections ==
    probe.op \in {"calculate_rook_moves", "calculate_bishop_moves", "calculate_queen_moves"} =>
        /\ Holds(probe.result.valid_moves,
                 UNION {RunMoves(Generator.location, d) : d \in Applicable(probe.op)})
        /\ Holds(probe.result.valid_captures,
                 UNION {RunCaptures(Generator.location, d, Generator.color) :
                            d \in Applicable(probe.op)})

\* A rook with an own piece and an opposing piece on its lines, and squares
\* to move to.
C30_RookBlockedAndTaking ==
    /\ probe.op = "calculate_rook_moves"
    /\ Len(probe.result.valid_captures) = 1
    /\ Len(probe.result.valid_moves) > 0
    /\ \E k \in 2..Len(probe.board) :
         /\ probe.board[k].color = Generator.color
         /\ \/ probe.board[k].location[1] = Generator.location[1]
            \/ probe.board[k].location[2] = Generator.location[2]

(***************************************************************************)
(* The peeks.                                                              *)
(***************************************************************************)
\* The colors of the pieces of the probed board that are in play on a square.
InPlayColorsOn(location) ==
    {probe.board[k].color : k \in {i \in 1..Len(probe.board) :
                                      /\ ~probe.board[i].captured
                                      /\ probe.board[i].location = location}}

\* What a square is to the asking piece, told from the pieces in play alone.
ClassOf(location) ==
    IF InPlayColorsOn(location) = {} THEN "Empty"
    ELSE IF InPlayColorsOn(location) = {Generator.color} THEN "Blocked"
    ELSE IF InPlayColorsOn(location) = Colors \ {Generator.color} THEN "Capture"
    ELSE "Unsettled"

\* C31: peek_location answers Empty when no piece in play stands on the square,
\* Blocked when a piece in play of the asking piece's color stands on it, and
\* Capture when a piece in play of the other color stands on it; the captured
\* pieces of the collection have no part in the answer.
C31_PeekLocationClassifiesByPiecesInPlay ==
    probe.op = "peek_location" => probe.result = ClassOf(probe.location)

\* A captured piece of the other color lies on the square with a piece in play
\* of the asking piece's color, or with none.
C31_CapturedPieceOnTheSquare ==
    /\ probe.op = "peek_location"
    /\ \E i \in 1..Len(probe.board) :
          /\ probe.board[i].captured
          /\ probe.board[i].location = probe.location
          /\ probe.board[i].color # Generator.color
    /\ probe.result = "Blocked"
    /\ probe.location # Generator.location

\* The square the peek starts on.
PeekStart == IF probe.location # None THEN probe.location ELSE Generator.location

\* C32: peek_direction answers OutOfBounds with no location exactly when one
\* step in the direction from the start square (the piece's own square, or the
\* square given in its place) leaves the board; otherwise it answers the
\* neighbouring square with what peek_location says of that square.
C32_PeekDirectionStepsOnceThenPeeks ==
    probe.op = "peek_direction" =>
        IF Shifted(PeekStart, probe.direction, 1) \in Locations
        THEN /\ probe.result.location = Shifted(PeekStart, probe.direction, 1)
             /\ probe.result.state = ClassOf(Shifted(PeekStart, probe.direction, 1))
        ELSE probe.result = [location |-> None, state |-> "OutOfBounds"]

\* A peek from a square given in place of the piece's own finds a piece to
\* capture, where the same peek from the piece's own square leaves the board.
C32_PeekFromTheGivenSquare ==
    /\ probe.op = "peek_direction"
    /\ probe.location # None
    /\ probe.result.state = "Capture"
    /\ Shifted(Generator.location, probe.direction, 1) \notin Locations

(***************************************************************************)
(* The simulations and the live match.                                     *)
(***************************************************************************)
PlacementsInPlay(m) ==
    {<<m.pieces[i].id, m.pieces[i].location, m.pieces[i].captured, m.pieces[i].first_move>> :
        i \in {j \in 1..Len(m.pieces) : ~m.pieces[j].captured}}

\* The cycle changed nothing of the match but caches, statuses and records.
SimulationsLeft(before, after) ==
    /\ Placements(after) = PlacementsInPlay(before)
    /\ after.current_turn = before.current_turn
    /\ after.movement_log = before.movement_log

\* The match a call of move_piece hands to its resolution cycle: the capture,
\* the move and the castle applied, the turn changed.
Captured(m, piece, location) ==
    IF Contains(piece.valid_captures, location)
    THEN handle_capture(m, location, MovementLogEntry(piece.id, piece.location, location)).m
    ELSE m

Moved(m, piece, location) ==
    IF Contains(piece.valid_moves, location) \/ Contains(piece.valid_captures, location)
    THEN handle_move(Captured(m, piece, location), piece.id, location)
    ELSE Captured(m, piece, location)

Castled(m, piece, location) ==
    IF piece.piece_type = "King"
    THEN handle_king_castle(Moved(m, piece, location), piece.id, location,
                            MovementLogEntry(piece.id, piece.location, location)).m
    ELSE Moved(m, piece, location)

HandedToTheCycle ==
    IF history.last.kind = "calculate_valid_moves" THEN Before
    ELSE change_turn(Castled(Before, PieceById(Before, history.last.request[1]),
                             history.last.request[2]))

\* The log as the cycle left it: without the entry the call added after it.
LogAfterTheCycle ==
    IF history.last.kind = "move_piece" /\ Len(movement_log) > Len(Before.movement_log)
    THEN SubSeq(movement_log, 1, Len(movement_log) - 1)
    ELSE movement_log

\* A resolution cycle has run in the last call.
CycleRan ==
    /\ ~aborted
    /\ history.last.kind # "none"
    /\ history.last.kind = "move_piece" => ~history.last.panicked

CycleStarted ==
    \/ history.last.kind = "calculate_valid_moves"
    \/ history.last.kind = "move_piece" /\ current_turn # Before.current_turn

\* C34: a resolution cycle started in a reachable position ends without
\* failing: no call that reaches its cycle aborts.
C34_CycleNeverFails == CycleStarted => ~aborted

(***************************************************************************)
(* The caches a resolution cycle leaves.                                   *)
(***************************************************************************)
NoRepeat(vec) == Cardinality(Destinations(vec)) = Len(vec)

\* C35: after a resolution cycle, for every piece in play: every square of its
\* move cache is on the board and holds no piece in play, every square of its
\* capture cache holds a piece in play of the other color, its own square is in
\* neither cache, and neither cache holds a square twice.
C35_CachesFitTheBoard ==
    CycleRan =>
        \A i \in 1..Len(pieces) :
            ~pieces[i].captured =>
                /\ \A l \in Destinations(pieces[i].valid_moves) :
                        l \in Locations /\ InPlayAt(Match, l) = {}
                /\ \A l \in Destinations(pieces[i].valid_captures) :
                        \E j \in InPlayAt(Match, l) : pieces[j].color # pieces[i].color
                /\ ~Contains(pieces[i].valid_moves, pieces[i].location)
                /\ ~Contains(pieces[i].valid_captures, pieces[i].location)
                /\ NoRepeat(pieces[i].valid_moves)
                /\ NoRepeat(pieces[i].valid_captures)

\* A king in play has a castle destination, two files from its square, among
\* its moves, and some piece has a capture.
C35_CachesWithCastleAndCapture ==
    /\ CycleRan
    /\ \E i \in KingsInPlay : \E l \in Destinations(pieces[i].valid_moves) :
            l[1] - pieces[i].location[1] \in {-2, 2}
    /\ \E i \in 1..Len(pieces) : pieces[i].valid_captures # <<>>

(***************************************************************************)
(* The flags of the pieces over the calls.                                 *)
(***************************************************************************)
\* The piece of the last call, and whether a piece is a rook the call may have
\* relocated as the rook of a castle of that piece.
Mover == PieceById(Before, history.last.request[1])

MayBeCastledWith(p) ==
    Mover.piece_type = "King" /\ p.piece_type = "Rook" /\ p.color = Mover.color

\* What the last call did to the flags of a piece that is still in the
\* collection: p before the call, q after it.
FlagsKept(p, q) ==
    /\ p.captured => q.captured
    /\ ~p.first_move => ~q.first_move
    /\ q.first_move => q.location = p.location
    /\ (p.first_move /\ ~q.first_move) => (p.id = Mover.id \/ MayBeCastledWith(p))

\* C36: the flags of the pieces are monotone over the calls: set_captured is
\* idempotent and a captured piece is never in play again; set_moved clears
\* first_move and a piece without the flag never has it again; a piece that no
\* call has moved or relocated as the rook of a castle has first_move set and
\* stands on the square it was generated on.
C36_FlagsAreMonotone ==
    /\ \A i \in 1..Len(pieces) :
          /\ set_captured(set_captured(pieces[i])) = set_captured(pieces[i])
          /\ set_captured(pieces[i]).captured
          /\ ~set_moved(pieces[i], pieces[i].location).first_move
          /\ pieces[i].first_move =>
                pieces[i].location = generate_pieces[pieces[i].id].location
    /\ history.last.kind = "move_piece" =>
          /\ \A i \in 1..Len(pieces) : IndexOfId(Before, pieces[i].id) # 0
          /\ history.last.call # "missing" =>
                \A i \in 1..Len(Before.pieces) :
                    IndexOfId(Match, Before.pieces[i].id) # 0 =>
                        FlagsKept(Before.pieces[i], PieceById(Match, Before.pieces[i].id))
    /\ history.last.kind = "calculate_valid_moves" =>
          Placements(Match) = Placements(Before)

\* The move of a king has relocated a rook that was on its first move, and a
\* pawn still has first_move set.
C36_CastleRelocatedARook ==
    /\ MoveApplied
    /\ Mover.piece_type = "King"
    /\ \E i \in 1..Len(pieces) :
          /\ pieces[i].piece_type = "Rook"
          /\ ~pieces[i].first_move
          /\ PieceById(Before, pieces[i].id).first_move
    /\ \E i \in 1..Len(pieces) : pieces[i].piece_type = "Pawn" /\ pieces[i].first_move

(***************************************************************************)
(* What a call of move_piece changes.                                      *)
(***************************************************************************)
Destination == history.last.request[2]

\* The call is a castle: the king, on its first move, goes two files along its
\* rank.
IsCastle ==
    /\ Mover.piece_type = "King"
    /\ Mover.first_move
    /\ Destination[2] = Mover.location[2]
    /\ Destination[1] - Mover.location[1] \in {-2, 2}

\* The rook a castle is made with: the rook of the king's color, on its first
\* move, on the side the king goes to.
PairedRook(p) ==
    /\ IsCastle
    /\ p.piece_type = "Rook"
    /\ p.color = Mover.color
    /\ p.first_move
    /\ (p.location[1] > Mover.location[1]) = (Destination[1] > Mover.location[1])

\* The piece p of the match before the call is the piece q after it.
OnlyTheMoveChanged(p, q) ==
    /\ q.piece_type = p.piece_type
    /\ q.color = p.color
    /\ q.location # p.location => (p.id = Mover.id \/ PairedRook(p))
    /\ q.captured # p.captured => (p.location = Destination /\ p.id # Mover.id)

\* C37: a call of move_piece that is applied, after calls that all were for the
\* side to move and to a destination of the piece's caches, changes the id, type and color of
\* no piece, the location of no piece but the mover and, in a castle, the rook
\* of the castle, and the captured flag of no piece but the one taken on the
\* destination; a piece the call removes from the collection stood on the
\* destination.
C37_MoveChangesOnlyItsPieces ==
    (MoveApplied /\ history.bad = 0) =>
        /\ \A i \in 1..Len(pieces) : IndexOfId(Before, pieces[i].id) # 0
        /\ \A i \in 1..Len(Before.pieces) :
              IF IndexOfId(Match, Before.pieces[i].id) # 0
              THEN OnlyTheMoveChanged(Before.pieces[i], PieceById(Match, Before.pieces[i].id))
              ELSE Before.pieces[i].location = Destination /\ Before.pieces[i].id # Mover.id

(***************************************************************************)
(* A second resolution cycle.                                              *)
(***************************************************************************)
\* The caches, king statuses and castle records of the match are those of the
\* cycle's result.
SameResolution(m, again) ==
    /\ ~again.panicked
    /\ again.m.pieces = m.pieces
    /\ again.m.white_king_state = m.white_king_state
    /\ again.m.black_king_state = m.black_king_state
    /\ again.m.white_king_castle = m.white_king_castle
    /\ again.m.black_king_castle = m.black_king_castle

\* C38: the resolution cycle is idempotent: after a cycle, a second call of
\* calculate_valid_moves with no call between leaves every piece's caches,
\* both king statuses and the castle records of each color as they were.
C38_SecondCycleChangesNothing ==
    CycleRan => SameResolution(Match, ChessMatch_calculate_valid_moves(Match))

====
